---------------------------- MODULE Spec2Model ----------------------------
(***************************************************************************)
(* OpenSig (opensig-js): the hash-chain generator (HashIterator), the      *)
(* batched discovery of published signatures (_discoverSignatures) and the *)
(* verify / sign lifecycle of a Document, as a state machine.              *)
(*                                                                         *)
(* Data representation.                                                    *)
(*   - A buffer (ArrayBuffer / Uint8Array) is a sequence of units.  A unit *)
(*     is a record [byte, pre, n]: a raw byte b is [byte |-> b,            *)
(*     pre |-> <<>>, n |-> 0]; a SHA-256 digest is one unit with byte -1.  *)
(*     SHA-256 is the ideal (collision-free) hash: a digest is the term    *)
(*     H(input), and two digests are equal exactly when their inputs are.  *)
(*     Terms are kept in a run-length normal form: with T(s, 1) = H(s) and *)
(*     T(s, k+1) = H(s ++ T(s, k)), the digest T(s, k) is the unit         *)
(*     [byte |-> -1, pre |-> s, n |-> k].  Every digest has exactly one    *)
(*     such form (the largest k), so unit equality is term equality.       *)
(*   - A JS string is a sequence of units as well: a character is the unit *)
(*     of its UTF-16 code unit; the 64 hex digits of a digest are the      *)
(*     single unit [byte |-> -2, pre |-> <<the digest>>, n |-> 0].         *)
(*     '' is <<>>.                                                         *)
(*   - JS undefined for an object reference is 0 (iterator ids are >= 1);  *)
(*     an unset chainSpecificHash is <<>>.                                 *)
(*                                                                         *)
(* Asynchrony.  JavaScript runs one callback at a time.  An action is what *)
(* one external event sets off: a call of sign() or verify(), a digest     *)
(* delivered by the crypto subsystem, an answer of the network.  It runs   *)
(* on through the promise callbacks that need no further external event,   *)
(* up to the next await of one.  The awaits of digests inside a discovery  *)
(* work on an iterator nothing else can reach, so they are folded into the *)
(* step that ends with the query.                                          *)
(***************************************************************************)
EXTENDS Integers, Sequences, FiniteSets, TLC

VARIABLES
  hashes,              \* Document.hashes: id of the installed HashIterator, 0 = undefined
  signingInProgress,   \* Document.signingInProgress
  iterators,           \* the heap of HashIterator objects, by id (NoIterator = not allocated)
  signs,               \* the frames of the sign() calls (accepted calls in flight, or settled)
  verifies,            \* the frames of the verify() calls
  run,                 \* observer: the pointer the last verify() left and the signatures
                       \*   published since by the sign() calls made after it
  settled,             \* observer: the call that settled in the last step, and how
  published,           \* the registry: the chain indices whose signature is published
  oracle,              \* how network.querySignatures answers: "any" | "few" | "registry"
  it,                  \* a stand-alone HashIterator, the last call on it and its result
  other,               \* a second stand-alone HashIterator, constructed independently
  codec,               \* an annotation, its payload (_encodeData) and what the payload
                       \*   decodes to (_decodeData) or what is handed to the network
  file,                \* a Document or File instance: its hash, its key, its verify() calls
  cipher,              \* an EncryptionKey instance: its cached key, its encrypt/decrypt calls
  handle               \* the confirmation promise of one publishSignature of EthersProvider

vars == <<hashes, signingInProgress, iterators, signs, verifies, run, settled,
          published, oracle, it, other, codec, file, cipher, handle>>

----------------------------------------------------------------------------
(* Bounds of the model *)

\* the largest n of a next(n) call on the stand-alone iterator
MaxNext == 3
\* the stand-alone iterator is not extended beyond this many elements
MaxChain == 7
\* discovery batches per verify() call
MaxBatches == 2
\* sign() calls published after one verify()
MaxPublishes == 2
\* sign() calls that can be in flight at a time if nothing rejects them
MaxSigns == 2
\* the verify() calls made on one File
MaxFileVerifies == 3
\* the encrypt/decrypt calls made on one EncryptionKey
MaxKeyCalls == 3
\* the receipt lookups of one confirmation
MaxPolls == 3

(* Program constants *)

MAX_SIGS_PER_DISCOVERY_ITERATION == 10

----------------------------------------------------------------------------
(* utils.js / crypto.js *)

Byte(b) == [byte |-> b, pre |-> <<>>, n |-> 0]

\* crypto.js hash(data): SHA-256 as the ideal hash; the digest is one unit, the
\* term H(data) in normal form: H(s ++ T(s, k)) is T(s, k+1), any other H(x) is T(x, 1)
hash(data) ==
  LET len == Len(data)
      u == data[len]
  IN IF len >= 2 /\ u.byte = -1 /\ u.pre = SubSeq(data, 1, len - 1)
       THEN << [byte |-> -1, pre |-> u.pre, n |-> u.n + 1] >>
       ELSE << [byte |-> -1, pre |-> data, n |-> 1] >>

\* utils.js concatBuffers
concatBuffers(buffer1, buffer2) == buffer1 \o buffer2

Char(c) == [byte |-> c, pre |-> <<>>, n |-> 0]

\* the character of the hex digit d (0..15): '0'..'9' are 48..57, 'a'..'f' are 97..102
HexDigit(d) == Char(IF d < 10 THEN 48 + d ELSE 87 + d)

\* x.toString(16).padStart(2, '0') of one unit: two hex digits of a raw byte,
\* the block of 64 digits of a digest
HexOfUnit(u) ==
  IF u.byte >= 0 THEN << HexDigit(u.byte \div 16), HexDigit(u.byte % 16) >>
  ELSE << [byte |-> -2, pre |-> <<u>>, n |-> 0] >>

RECURSIVE HexOfBuffer(_)
HexOfBuffer(buffer) ==
  IF buffer = <<>> THEN <<>>
  ELSE HexOfUnit(Head(buffer)) \o HexOfBuffer(Tail(buffer))

\* utils.js buf2hex(buffer, prefix0x): the hex of every byte, after '0x' when
\* prefix0x; buf2hex(undefined) is '0x' (new Uint8Array(undefined) is empty)
buf2hex(buffer, prefix0x) ==
  (IF prefix0x THEN << Char(48), Char(120) >> ELSE <<>>) \o HexOfBuffer(buffer)

EmptyString == <<>>

\* Array.prototype.slice(start, end) on a sequence (indices are 0-based in JS)
JsSlice(s, start, end) ==
  LET len == Len(s)
      k == IF start < 0 THEN (IF len + start < 0 THEN 0 ELSE len + start)
           ELSE (IF start > len THEN len ELSE start)
      f == IF end < 0 THEN (IF len + end < 0 THEN 0 ELSE len + end)
           ELSE (IF end > len THEN len ELSE end)
  IN IF f <= k THEN <<>> ELSE SubSeq(s, k + 1, f)

\* Array.prototype.indexOf: first 0-based index of x in s, or -1
JsIndexOf(s, x) ==
  IF \E i \in 1..Len(s) : s[i] = x
    THEN (CHOOSE i \in 1..Len(s) : s[i] = x /\ \A j \in 1..(i-1) : s[j] # x) - 1
    ELSE -1

RECURSIVE DecimalDigits(_)
\* the characters of ''+n, each as its digit value
DecimalDigits(n) ==
  IF n < 10 THEN <<n>> ELSE Append(DecimalDigits(n \div 10), n % 10)

\* a faulty conversion: every character becomes the byte of its character code
ChainIdBytes_charCodes(chainId) ==
  LET d == DecimalDigits(chainId) IN [i \in 1..Len(d) |-> Byte(48 + d[i])]

\* Uint8Array.from(''+chainId): every character c of the decimal string becomes
\* the byte Number(c), i.e. the digit's value
ChainIdBytes(chainId) ==
  LET d == DecimalDigits(chainId) IN [i \in 1..Len(d) |-> Byte(d[i])]

----------------------------------------------------------------------------
(* HashIterator *)

\* new HashIterator(documentHash, chainId)
NewHashIterator(documentHash, chainId) ==
  [ documentHash |-> documentHash, chainId |-> chainId,
    chainSpecificHash |-> <<>>, hashes |-> <<>>, hashPtr |-> -1 ]

\* A call of next(n) is suspended at an await ("hc", "h0", "loop") with the
\* digest it awaits in pend, or has returned ("done") with its result in out.
NextFrame(at, n, i, pend, out) == [at |-> at, n |-> n, i |-> i, pend |-> pend, out |-> out]

\* a faulty loop body: the operands of the concatenation are swapped
NextLoop_swapped(g, n, i) ==
  IF i <= g.hashPtr + n
    THEN [ g |-> g,
           f |-> NextFrame("loop", n, i,
                   hash(concatBuffers(g.hashes[i], g.chainSpecificHash)), <<>>) ]
    ELSE [ g |-> [g EXCEPT !.hashPtr = g.hashPtr + n],
           f |-> NextFrame("done", n, i, <<>>,
                   JsSlice(g.hashes, g.hashPtr + 1, g.hashPtr + n + 1)) ]

\* a faulty return: the pointer is advanced before the slice is taken
NextLoop_advancesFirst(g, n, i) ==
  IF i <= g.hashPtr + n
    THEN [ g |-> g,
           f |-> NextFrame("loop", n, i,
                   hash(concatBuffers(g.chainSpecificHash, g.hashes[i])), <<>>) ]
    ELSE [ g |-> [g EXCEPT !.hashPtr = g.hashPtr + n],
           f |-> NextFrame("done", n, i, <<>>,
                   JsSlice(g.hashes, g.hashPtr + n + 1, g.hashPtr + n + 1)) ]

\* next(n) from the head of the for loop with loop variable i, up to the next await
NextLoop(g, n, i) ==
  IF i <= g.hashPtr + n
    THEN [ g |-> g,
           f |-> NextFrame("loop", n, i,
                   hash(concatBuffers(g.chainSpecificHash, g.hashes[i])), <<>>) ]
    ELSE [ g |-> [g EXCEPT !.hashPtr = g.hashPtr + n],
           f |-> NextFrame("done", n, i, <<>>,
                   JsSlice(g.hashes, g.hashPtr + 1, g.hashPtr + n + 1)) ]

\* next(n) from the test of hashes.length === 0, up to the next await
NextFirst(g, n) ==
  IF Len(g.hashes) = 0
    THEN [ g |-> g, f |-> NextFrame("h0", n, 0, hash(g.chainSpecificHash), <<>>) ]
    ELSE NextLoop(g, n, Len(g.hashes))

\* a faulty entry: the chain-specific hash depends on where the pointer stands
NextEnter_pointerSeeded(g, n) ==
  IF g.chainSpecificHash = <<>>
    THEN [ g |-> g,
           f |-> NextFrame("hc", n, 0,
                   hash(concatBuffers(ChainIdBytes(g.chainId + g.hashPtr + 1), g.documentHash)),
                   <<>>) ]
    ELSE NextFirst(g, n)

\* next(n) from its entry, up to the first await
NextEnter(g, n) ==
  IF g.chainSpecificHash = <<>>
    THEN [ g |-> g,
           f |-> NextFrame("hc", n, 0,
                   hash(concatBuffers(ChainIdBytes(g.chainId), g.documentHash)), <<>>) ]
    ELSE NextFirst(g, n)

\* the awaited digest f.pend arrives: next(n) runs on up to the next await
NextResume(g, f) ==
  CASE f.at = "hc"   -> NextFirst([g EXCEPT !.chainSpecificHash = f.pend], f.n)
    [] f.at = "h0"   -> LET g1 == [g EXCEPT !.hashes = Append(g.hashes, f.pend)]
                        IN NextLoop(g1, f.n, Len(g1.hashes))
    [] f.at = "loop" -> NextLoop([g EXCEPT !.hashes = Append(g.hashes, f.pend)], f.n, f.i + 1)
    [] OTHER         -> [g |-> g, f |-> f]

RECURSIVE NextDrive(_)
NextDrive(r) == IF r.f.at = "done" THEN r ELSE NextDrive(NextResume(r.g, r.f))

\* `await iterator.next(n)` with nothing else touching the iterator meanwhile
HashIterator_next(g, n) == NextDrive(NextEnter(g, n))

\* a faulty current(): the last materialized element
current_last(g) == IF g.hashPtr >= 0 /\ g.hashes # <<>> THEN g.hashes[Len(g.hashes)] ELSE <<>>

current(g) == IF g.hashPtr >= 0 /\ g.hashPtr < Len(g.hashes) THEN g.hashes[g.hashPtr + 1] ELSE <<>>

currentIndex(g) == g.hashPtr

indexAt(g, i) == IF i >= 0 /\ i < Len(g.hashes) THEN g.hashes[i + 1] ELSE <<>>

indexOf(g, h) == JsIndexOf([i \in 1..Len(g.hashes) |-> buf2hex(g.hashes[i], TRUE)], h)

\* a faulty reset(): the elements beyond the new pointer are dropped
reset_truncates(g, n) == [g EXCEPT !.hashPtr = n, !.hashes = JsSlice(g.hashes, 0, n + 1)]

reset(g, n) == [g EXCEPT !.hashPtr = n]

size(g) == g.hashPtr + 1

----------------------------------------------------------------------------
(* The chain of the OpenSig standard, defined on its own (not by the code):   *)
(* H[0] = SHA-256(Hc), H[i] = SHA-256(concat(Hc, H[i-1]))                     *)

\* the element k places after the element h (each level computes its digest
\* before it goes on, which keeps the evaluation flat)
RECURSIVE ChainFrom(_, _, _)
ChainFrom(Hc, h, k) ==
  IF k = 0 THEN h
  ELSE LET next == hash(concatBuffers(Hc, h))
       IN IF Len(next) = 1 THEN ChainFrom(Hc, next, k - 1) ELSE <<>>

\* H[i]
Chain(Hc, i) == ChainFrom(Hc, hash(Hc), i)

----------------------------------------------------------------------------
(* The Document, its network and the values that pass between them *)

\* the hash the Document is constructed with (a SHA-256 digest of its content)
DocumentHash == hash(<<Byte(1)>>)

\* network.chainId
NetworkChainId == 1

\* the chain-specific hash of the Document's chain, as HashIterator.next computes it
DocumentHc == hash(concatBuffers(ChainIdBytes(NetworkChainId), DocumentHash))

\* the '0x'-prefixed hex of element i of the Document's chain
ChainHex(i) == buf2hex(Chain(DocumentHc, i), TRUE)

\* utils.js unicodeStrToHex: four hex digits per UTF-16 code unit
RECURSIVE unicodeStrToHex(_)
unicodeStrToHex(str) ==
  IF str = <<>> THEN <<>>
  ELSE LET c == Head(str).byte
       IN << HexDigit(c \div 4096), HexDigit((c \div 256) % 16),
             HexDigit((c \div 16) % 16), HexDigit(c % 16) >> \o unicodeStrToHex(Tail(str))

\* a JS string from its code units
Str(codes) == [i \in 1..Len(codes) |-> Char(codes[i])]

\* an annotation object: type is the string given ("undefined" when absent);
\* encrypted is "undefined", the booleans "true" / "false", or another value,
\* written as its JS literal ("'invalid'" and "1" are truthy, "0", "''" and "null"
\* are falsy); content is [t |-> "undefined" | "string" | "number", s |-> the string]
Annotation(type, encrypted, content) == [type |-> type, encrypted |-> encrypted, content |-> content]

Undefined == [t |-> "undefined", s |-> <<>>]

StringContent(codes) == [t |-> "string", s |-> Str(codes)]

\* the content 123
NumberContent == [t |-> "number", s |-> <<>>]

\* ToBoolean(data.encrypted)
Truthy(e) == e \in {"true", "'invalid'", "1"}

\* typeof data.encrypted === 'boolean'
IsBoolean(e) == e \in {"true", "false"}

\* sign() is called with no argument (data = {}), with a string annotation, or
\* with an annotation encode rejects: of an unknown type, with a content that is
\* not a string, with a 'hex' content that is not hex ('0xg')
Annotations ==
  { Annotation("undefined", "undefined", Undefined),
    Annotation("string", "false", StringContent(<<104, 105>>)),
    Annotation("invalid-type", "false", StringContent(<<104, 105>>)),
    Annotation("string", "false", NumberContent),
    Annotation("hex", "false", StringContent(<<48, 120, 103>>)) }

\* the value of a hex digit character ('0'..'9', 'a'..'f', 'A'..'F'), -1 for
\* anything else
HexValue(u) ==
  LET c == u.byte
  IN IF c >= 48 /\ c <= 57 THEN c - 48
     ELSE IF c >= 97 /\ c <= 102 THEN c - 87
     ELSE IF c >= 65 /\ c <= 70 THEN c - 55
     ELSE -1

RECURSIVE ParseHexFrom(_, _)
ParseHexFrom(s, acc) ==
  IF s = <<>> \/ HexValue(Head(s)) < 0 THEN acc
  ELSE ParseHexFrom(Tail(s), 16 * acc + HexValue(Head(s)))

\* parseInt(s, 16) of a chunk of a hex string: the number its leading hex digits
\* denote; when it has none NaN, which every caller here turns into 0
\* (Uint8Array.from, String.fromCharCode, the bit operators)
parseInt16(s) == ParseHexFrom(s, 0)

\* str.replace('0x', ''): the first occurrence of '0x' is removed
Remove0x(s) ==
  LET at == { i \in 1..(Len(s) - 1) : s[i] = Char(48) /\ s[i + 1] = Char(120) }
  IN IF at = {} THEN s
     ELSE LET i == CHOOSE i \in at : \A j \in at : i <= j
          IN SubSeq(s, 1, i - 1) \o SubSeq(s, i + 2, Len(s))

\* the bytes of the chunks of at most two characters of a hex string (the 64
\* digits of a digest, one unit of the string, are the digest's unit again)
RECURSIVE HexChunks(_)
HexChunks(s) ==
  IF s = <<>> THEN <<>>
  ELSE IF Head(s).byte < 0 THEN Head(s).pre \o HexChunks(Tail(s))
  ELSE IF Len(s) = 1 \/ s[2].byte < 0
         THEN << Byte(parseInt16(<< s[1] >>) % 256) >> \o HexChunks(Tail(s))
  ELSE << Byte(parseInt16(<< s[1], s[2] >>) % 256) >> \o HexChunks(SubSeq(s, 3, Len(s)))

\* utils.js hexToBuf: [ok |-> TRUE, value |-> the buffer], or ok |-> FALSE when the
\* string has no characters left after the replace (match() is null and
\* null.map throws a TypeError)
hexToBuf(hex) ==
  LET s == Remove0x(hex)
  IN IF s = <<>> THEN [ok |-> FALSE, value |-> <<>>]
     ELSE [ok |-> TRUE, value |-> HexChunks(s)]

\* utils.js unicodeHexToStr: one character per chunk of at most four hex digits
RECURSIVE UnicodeChunks(_)
UnicodeChunks(s) ==
  IF s = <<>> THEN <<>>
  ELSE LET k == IF Len(s) < 4 THEN Len(s) ELSE 4
       IN << Char(parseInt16(SubSeq(s, 1, k)) % 65536) >> \o UnicodeChunks(SubSeq(s, k + 1, Len(s)))

unicodeHexToStr(str) == UnicodeChunks(Remove0x(str))

\* ethers.isHexString(value) of a string, without a length argument: '0x'
\* followed by any number of hex digits of either case (an odd number too)
isHexString(value) ==
  /\ Len(value) >= 2
  /\ value[1] = Char(48) /\ value[2] = Char(120)
  /\ \A i \in 3..Len(value) : HexValue(value[i]) >= 0

\* new EncryptionKey(hash)
EncryptionKey(h) == [hash |-> h]

\* the bytes of an initialisation vector
IvLength == 12

\* crypto.getRandomValues(new Uint8Array(12)): what it may return
Nonces == { [i \in 1..IvLength |-> Byte(b)] : b \in {0, 255} }
            \cup { [i \in 1..IvLength |-> Byte(i)] }

\* AES-GCM as the ideal authenticated cipher: the ciphertext (with its tag) of a
\* plaintext under a key and an iv is one unit, the term E(key, iv, plaintext);
\* it decrypts under that key and iv only, and nothing else decrypts at all
AesGcmEncrypt(key, iv, plaintext) == << [byte |-> -3, pre |-> key \o iv \o plaintext, n |-> 0] >>

AesGcmDecrypt(key, iv, data) ==
  IF /\ Len(data) = 1
     /\ data[1].byte = -3
     /\ Len(data[1].pre) >= Len(key) + Len(iv)
     /\ SubSeq(data[1].pre, 1, Len(key) + Len(iv)) = key \o iv
    THEN [ok |-> TRUE, value |-> SubSeq(data[1].pre, Len(key) + Len(iv) + 1, Len(data[1].pre))]
    ELSE [ok |-> FALSE, value |-> <<>>]

\* EncryptionKey.encrypt(data) when getRandomValues returns iv
encrypt(encryptionKey, data, iv) ==
  LET buf == hexToBuf(data)
  IN IF buf.ok
       THEN [ok |-> TRUE,
             value |-> buf2hex(concatBuffers(iv, AesGcmEncrypt(encryptionKey.hash, iv, buf.value)),
                               FALSE)]
       ELSE [ok |-> FALSE, value |-> <<>>]

\* EncryptionKey.decrypt(data)
decrypt(encryptionKey, data) ==
  LET buf == hexToBuf(data)
  IN IF buf.ok
       THEN LET plain == AesGcmDecrypt(encryptionKey.hash, JsSlice(buf.value, 0, IvLength),
                                       JsSlice(buf.value, IvLength, Len(buf.value)))
            IN IF plain.ok THEN [ok |-> TRUE, value |-> buf2hex(plain.value, FALSE)]
               ELSE [ok |-> FALSE, value |-> <<>>]
       ELSE [ok |-> FALSE, value |-> <<>>]

SIG_DATA_VERSION == << Char(48), Char(48) >>

SIG_DATA_ENCRYPTED_FLAG == 128

SIG_DATA_TYPE_STRING == 0

SIG_DATA_TYPE_BYTES == 1

\* '0x' + SIG_DATA_VERSION + typeStr, for the type byte `type`
PayloadPrefix(type) ==
  << Char(48), Char(120) >> \o SIG_DATA_VERSION
     \o << HexDigit((type \div 16) % 16), HexDigit(type % 16) >>

Encoded(payload) == [ok |-> TRUE, value |-> payload, error |-> ""]

EncodeError(message) == [ok |-> FALSE, value |-> <<>>, error |-> message]

\* a faulty end of _encodeData: the encrypted payload lacks the version and type
EncodeEnd_noPrefix(data, type, encData, encryptionKey, iv) ==
  IF Truthy(data.encrypted)
    THEN LET e == encrypt(encryptionKey, encData, iv)
         IN IF e.ok THEN Encoded(<< Char(48), Char(120) >> \o e.value)
            ELSE EncodeError("TypeError")
    ELSE Encoded(PayloadPrefix(type) \o encData)

\* the end of _encodeData, from `const typeStr`: the payload of the type byte and
\* the encoded content, encrypted when the flag is set
EncodeEnd(data, type, encData, encryptionKey, iv) ==
  IF Truthy(data.encrypted)
    THEN LET e == encrypt(encryptionKey, encData, iv)
         IN IF e.ok THEN Encoded(PayloadPrefix(type) \o e.value)
            ELSE EncodeError("TypeError")
    ELSE Encoded(PayloadPrefix(type) \o encData)

\* data.encrypted && typeof data.encrypted !== 'boolean'
FlagInvalid(data) == Truthy(data.encrypted) /\ ~ IsBoolean(data.encrypted)

\* a faulty _encodeData: the flag is checked before the content is looked at
_encodeData_flagFirst(data, encryptionKey, iv) ==
  IF FlagInvalid(data)
    THEN EncodeError("invalid data encrypted flag")
  ELSE IF data.content.t = "undefined" \/ (data.content.t = "string" /\ data.content.s = <<>>)
    THEN Encoded(<< Char(48), Char(120) >>)
  ELSE EncodeError("invalid data content")

\* _encodeData(data, encryptionKey), with iv the random value encrypt() draws:
\* [ok |-> TRUE, value |-> the payload] or [ok |-> FALSE, error |-> the message of
\* the Error thrown]
_encodeData(data, encryptionKey, iv) ==
  IF data.content.t = "undefined" \/ (data.content.t = "string" /\ data.content.s = <<>>)
    THEN Encoded(<< Char(48), Char(120) >>)
  ELSE IF FlagInvalid(data)
    THEN EncodeError("invalid data encrypted flag")
  ELSE LET type == IF Truthy(data.encrypted) THEN SIG_DATA_ENCRYPTED_FLAG ELSE 0
       IN CASE data.type = "string" ->
                 IF data.content.t # "string"
                   THEN EncodeError("invalid data content")
                   ELSE EncodeEnd(data, type + SIG_DATA_TYPE_STRING,
                                  unicodeStrToHex(data.content.s), encryptionKey, iv)
            [] data.type = "hex" ->
                 IF data.content.t # "string" \/ ~ isHexString(data.content.s)
                   THEN EncodeError("invalid data content")
                   ELSE EncodeEnd(data, type + SIG_DATA_TYPE_BYTES,
                                  IF JsSlice(data.content.s, 0, 2) = << Char(48), Char(120) >>
                                    THEN JsSlice(data.content.s, 2, Len(data.content.s))
                                    ELSE data.content.s,
                                  encryptionKey, iv)
            [] OTHER -> EncodeError("invalid data type '" \o data.type \o "'")

\* a raw log record of the registry's Signature event, as the query collaborator
\* returns it: kind "log" parses, for kind "junk" parseLog returns null, for kind
\* "bad" parseLog throws
LogEntry(kind, signature) ==
  [kind |-> kind, time |-> 1, signer |-> "0xabc", signature |-> signature,
   data |-> << Char(48), Char(120) >>]

\* the object _decodeData builds: of an invalid payload the type is "invalid",
\* the message is in `invalid` and content is ''; a call that ends with an
\* exception instead has the type "threw"
Decoded(version, encrypted, type, content, invalid) ==
  [version |-> version, encrypted |-> encrypted, type |-> type, content |-> content,
   invalid |-> invalid]

\* a faulty decoder: the hex content is returned without its '0x'
DecodeContent_bare(type, sigData) ==
  CASE type = SIG_DATA_TYPE_STRING -> [type |-> "string", content |-> unicodeHexToStr(sigData)]
    [] type = SIG_DATA_TYPE_BYTES  -> [type |-> "hex", content |-> sigData]
    [] OTHER                       -> [type |-> "invalid", content |-> <<>>]

\* the switch of _decodeData
DecodeContent(type, sigData) ==
  CASE type = SIG_DATA_TYPE_STRING -> [type |-> "string", content |-> unicodeHexToStr(sigData)]
    [] type = SIG_DATA_TYPE_BYTES  ->
         [type |-> "hex", content |-> << Char(48), Char(120) >> \o sigData]
    [] OTHER                       -> [type |-> "invalid", content |-> <<>>]

\* a faulty catch: the payload is left as it is
TryDecrypt_keeps(encryptionKey, sigData) ==
  LET d == decrypt(encryptionKey, sigData)
  IN [threw |-> FALSE, value |-> IF d.ok THEN d.value ELSE sigData]

\* a faulty try: the failure of decrypt() is not caught
TryDecrypt_uncaught(encryptionKey, sigData) ==
  LET d == decrypt(encryptionKey, sigData)
  IN [threw |-> ~ d.ok, value |-> d.value]

\* try { sigData = await encryptionKey.decrypt(sigData) } catch(error) { sigData = '' }
\* (decrypt() fails by a TypeError of hexToBuf or by a rejection of the cipher)
TryDecrypt(encryptionKey, sigData) ==
  LET d == decrypt(encryptionKey, sigData)
  IN [threw |-> FALSE, value |-> IF d.ok THEN d.value ELSE <<>>]

\* a faulty test: payloads of fewer than three bytes are refused
TooShort_threeBytes(encData) == Len(encData) < 8

\* encData.length < 6: fewer than the six characters of '0x', version and type
TooShort(encData) == Len(encData) < 6

\* _decodeData(encData, encryptionKey)
_decodeData(encData, encryptionKey) ==
  IF encData = <<>> \/ encData = << Char(48), Char(120) >> THEN [type |-> "none"]
  ELSE IF TooShort(encData) THEN Decoded(<<>>, FALSE, "invalid", <<>>, "data is < 6 bytes")
  ELSE LET version   == JsSlice(encData, 2, 4)
           typeField == parseInt16(JsSlice(encData, 4, 6))
           encrypted == (typeField \div SIG_DATA_ENCRYPTED_FLAG) % 2 = 1
           type      == IF encrypted THEN typeField - SIG_DATA_ENCRYPTED_FLAG ELSE typeField
           raw       == JsSlice(encData, 6, Len(encData))
           try       == IF encrypted /\ Len(raw) > 0
                          THEN TryDecrypt(encryptionKey, raw)
                          ELSE [threw |-> FALSE, value |-> raw]
           c         == DecodeContent(type, try.value)
       IN IF try.threw THEN Decoded(version, encrypted, "threw", <<>>, "")
          ELSE Decoded(version, encrypted, c.type, c.content,
                       IF c.type = "invalid" THEN "unrecognised type" ELSE "")

\* Document.encryptionKey: new EncryptionKey(documentHash)
DocumentKey == EncryptionKey(DocumentHash)

\* the key of another document
OtherKey == EncryptionKey(hash(<<Byte(2)>>))

\* a payload as _encodeData makes it for an encrypted annotation under a key
EncryptedPayload(type, codes, encryptionKey) ==
  _encodeData(Annotation(type, "true", StringContent(codes)), encryptionKey,
              [i \in 1..IvLength |-> Byte(i)]).value

\* a faulty _decodeSignatureEvent: what parseLog does not parse is decoded as it is
_decodeSignatureEvent_unchecked(event) ==
  [time |-> event.time, signatory |-> event.signer, signature |-> event.signature,
   data |-> _decodeData(event.data, DocumentKey)]

\* _decodeSignatureEvent(event, encryptionKey) of an event parseLog does not throw on
_decodeSignatureEvent(event) ==
  IF event.kind = "junk"
    THEN [time |-> 0, signatory |-> "", signature |-> EmptyString, data |-> [type |-> "none"]]
    ELSE [time |-> event.time, signatory |-> event.signer, signature |-> event.signature,
          data |-> _decodeData(event.data, DocumentKey)]

----------------------------------------------------------------------------
(* The heap of HashIterator objects and the frames of the calls in flight *)

\* verify() is called when no other verify() is in flight: one frame
VerifyFrames == {1}

MaxIterators == MaxSigns + 1 + Cardinality(VerifyFrames)

NoIterator == NewHashIterator(<<>>, 0)

DoneFrame == NextFrame("done", 0, 0, <<>>, <<>>)

IdleSign ==
  [pc |-> "idle", gen |-> 0, f |-> DoneFrame, data |-> Annotation("undefined", "undefined", Undefined),
   ptrBefore |-> 0, signature |-> <<>>, calls |-> 0, fresh |-> FALSE]

IdleVerify ==
  [pc |-> "idle", gen |-> 0, signatureEvents |-> <<>>, lastSignatureIndex |-> -1,
   ids |-> <<>>, responses |-> <<>>]

NoSettled ==
  [op |-> "none", status |-> "", error |-> "", value |-> <<>>, ptr |-> 0, ptrBefore |-> 0,
   signature |-> <<>>, calls |-> 0, fresh |-> FALSE, responses |-> <<>>]

\* objects no reference leads to are collected
Collect(its, h, sg, vf) ==
  [i \in 1..MaxIterators |->
     IF \/ i = h
        \/ \E s \in 1..MaxSigns : sg[s].pc # "idle" /\ sg[s].gen = i
        \/ \E v \in VerifyFrames : vf[v].pc # "idle" /\ vf[v].gen = i
       THEN its[i] ELSE NoIterator]

\* Where the objects live: the iterator Document.hashes refers to is in slot
\* Installed; an iterator that verify() replaced while the next() of a sign()
\* still runs on it is in a Detached slot; the iterator local to the discovery
\* of verify frame v is in slot DiscoveryIterator(v).
Installed == 1

DetachedIds == 2..(MaxSigns + 1)

DiscoveryIterator(v) == MaxSigns + 1 + v

FreeDetached == CHOOSE d \in DetachedIds :
                  /\ iterators[d] = NoIterator
                  /\ \A j \in DetachedIds : j < d => iterators[j] # NoIterator

FreeSign == CHOOSE s \in 1..MaxSigns :
              signs[s].pc = "idle" /\ \A t \in 1..(s-1) : signs[t].pc # "idle"

FreeVerify == CHOOSE v \in VerifyFrames :
                verifies[v].pc = "idle" /\ \A t \in 1..(v-1) : verifies[t].pc # "idle"

IterUnchanged == UNCHANGED <<it, other, codec, file, cipher, handle>>

WorldUnchanged == UNCHANGED <<published, oracle>>

----------------------------------------------------------------------------
(* Document.sign *)

\* the two preconditions of sign() (the _never variants are faulty: the test
\* is missing)
AlreadySigning_never == FALSE
\* (_whenPublishing is faulty too: the flag counts only once next() has resolved)
AlreadySigning_whenPublishing == \E s \in 1..MaxSigns : signs[s].pc = "publish"
AlreadySigning == signingInProgress

NotVerified_never == FALSE
NotVerified == hashes = 0

SignSettled(status, error, fr, its) ==
  [NoSettled EXCEPT !.op = "sign", !.status = status, !.error = error,
                    !.ptr = IF fr.gen = 0 THEN 0 ELSE its[fr.gen].hashPtr,
                    !.ptrBefore = fr.ptrBefore, !.signature = fr.signature,
                    !.calls = fr.calls, !.fresh = fr.fresh]

\* the catch handler of sign(): this.hashes.reset(this.hashes.currentIndex()-1),
\* on the iterator that Document.hashes refers to when the handler runs
SignCatch(its, h, gen) == [its EXCEPT ![h] = reset(its[h], currentIndex(its[h]) - 1)]

\* a faulty end of sign(): the flag is cleared in a then handler, not in finally
SignEnd_thenClears(s, fr, its, status, error, failed) ==
  LET its1 == IF failed THEN SignCatch(its, hashes, fr.gen) ELSE its
      sg1  == [signs EXCEPT ![s] = IdleSign]
  IN /\ signingInProgress' = failed
     /\ settled' = SignSettled(status, error, fr, its1)
     /\ signs' = sg1
     /\ iterators' = Collect(its1, hashes, sg1, verifies)
     /\ run' = IF ~failed /\ fr.fresh
                 THEN [run EXCEPT !.sigs = Append(run.sigs, fr.signature)] ELSE run
     /\ UNCHANGED <<hashes, verifies>>

\* the handlers that end a sign() whose frame is fr, with the heap as its: catch
\* (when failed), then finally
SignEnd(s, fr, its, status, error, failed) ==
  LET its1 == IF failed THEN SignCatch(its, hashes, fr.gen) ELSE its
      sg1  == [signs EXCEPT ![s] = IdleSign]
  IN /\ signingInProgress' = FALSE
     /\ settled' = SignSettled(status, error, fr, its1)
     /\ signs' = sg1
     /\ iterators' = Collect(its1, hashes, sg1, verifies)
     /\ run' = IF ~failed /\ fr.fresh
                 THEN [run EXCEPT !.sigs = Append(run.sigs, fr.signature)] ELSE run
     /\ UNCHANGED <<hashes, verifies>>

\* next() has resolved with fr.f.out: the then handler runs before any answer of
\* the network can arrive. _publishSignature(network, signature, data, key)
\* encodes the annotation (an annotation that is not encrypted needs no further
\* await) and calls network.publishSignature(signature, encodedData); an
\* encoding error ends the sign().
_publishSignature(s, fr, its, flag) ==
  LET sig == buf2hex(IF fr.f.out = <<>> THEN <<>> ELSE fr.f.out[1], TRUE)
      \* (no annotation of Annotations is encrypted: encrypt() draws no nonce)
      enc == _encodeData(fr.data, DocumentKey, <<>>)
  IN IF enc.ok
       THEN /\ signs' = [signs EXCEPT ![s] =
                 [fr EXCEPT !.pc = "publish", !.signature = sig,
                            !.data = IdleSign.data, !.calls = fr.calls + 1]]
            /\ signingInProgress' = flag
            /\ iterators' = its
            /\ settled' = NoSettled
            /\ UNCHANGED <<hashes, verifies, run>>
       ELSE SignEnd(s, fr, its, "rejected", enc.error, TRUE)

\* sign(data) is called: it throws on a failed precondition, else sets the flag
\* and calls this.hashes.next(), which runs up to its first await, or to its end
\* when the element exists already
sign(data) ==
  /\ \E s \in 1..MaxSigns : signs[s].pc = "idle"
  /\ Len(run.sigs) < MaxPublishes
  /\ IF AlreadySigning
       THEN /\ settled' = SignSettled("rejected", "Signing already in progress", IdleSign, iterators)
            /\ UNCHANGED <<hashes, signingInProgress, iterators, signs, verifies, run>>
     ELSE IF NotVerified
       THEN /\ settled' = SignSettled("rejected", "Must verify before signing", IdleSign, iterators)
            /\ UNCHANGED <<hashes, signingInProgress, iterators, signs, verifies, run>>
     ELSE IF hashes = 0
       THEN \* this.hashes.next() on undefined throws a TypeError after the flag is set
            /\ signingInProgress' = TRUE
            /\ settled' = SignSettled("rejected", "TypeError", IdleSign, iterators)
            /\ UNCHANGED <<hashes, iterators, signs, verifies, run>>
     ELSE LET s   == FreeSign
              r   == NextEnter(iterators[hashes], 1)
              its == [iterators EXCEPT ![hashes] = r.g]
              fr  == [pc |-> "next", gen |-> hashes, f |-> r.f, data |-> data,
                      ptrBefore |-> iterators[hashes].hashPtr, signature |-> <<>>,
                      calls |-> 0, fresh |-> TRUE]
          IN IF r.f.at = "done"
               THEN _publishSignature(s, fr, its, TRUE)
               ELSE /\ signingInProgress' = TRUE
                    /\ iterators' = its
                    /\ signs' = [signs EXCEPT ![s] = fr]
                    /\ settled' = NoSettled
                    /\ UNCHANGED <<hashes, verifies, run>>
  /\ IterUnchanged /\ WorldUnchanged

\* a digest awaited by the next() of sign() arrives: next() runs on to its next
\* await, or to its end and the then handler
sign_next(s) ==
  /\ signs[s].pc = "next"
  /\ LET r   == NextResume(iterators[signs[s].gen], signs[s].f)
         its == [iterators EXCEPT ![signs[s].gen] = r.g]
         fr  == [signs[s] EXCEPT !.f = r.f]
     IN IF r.f.at = "done"
          THEN _publishSignature(s, fr, its, signingInProgress)
          ELSE /\ iterators' = its
               /\ signs' = [signs EXCEPT ![s] = fr]
               /\ settled' = NoSettled
               /\ UNCHANGED <<hashes, signingInProgress, verifies, run>>
  /\ IterUnchanged /\ WorldUnchanged

\* the publish collaborator resolves
publish_resolve(s) ==
  /\ signs[s].pc = "publish"
  /\ SignEnd(s, signs[s], iterators, "resolved", "", FALSE)
  /\ IterUnchanged /\ WorldUnchanged

\* the publish collaborator rejects
publish_reject(s) ==
  /\ signs[s].pc = "publish"
  /\ SignEnd(s, signs[s], iterators, "rejected", "Failed to publish signature", TRUE)
  /\ IterUnchanged /\ WorldUnchanged

----------------------------------------------------------------------------
(* The stand-alone HashIterator: any sequence of awaited next(n) and reset(n) *)

\* document hashes: SHA-256 digests of two documents
DocumentHashes == { hash(<<Byte(1)>>), hash(<<Byte(2)>>) }

\* chain ids (those of the tests)
ChainIds == { 4, 987654321 }

DocUnchanged == UNCHANGED <<hashes, signingInProgress, iterators, signs, verifies,
                            run, settled, published, oracle>>

\* await it.next(n)
IterNext(n) ==
  /\ it.g.hashPtr + n < MaxChain
  /\ LET r == HashIterator_next(it.g, n)
     IN it' = [g |-> r.g, op |-> "next", arg |-> n, out |-> r.f.out, val |-> 0]
  /\ DocUnchanged /\ UNCHANGED <<other, codec, file, cipher, handle>>

\* it.reset(n)
IterReset(n) ==
  /\ it' = [g |-> reset(it.g, n), op |-> "reset", arg |-> n, out |-> <<>>, val |-> 0]
  /\ DocUnchanged /\ UNCHANGED <<other, codec, file, cipher, handle>>

\* it.current(), it.currentIndex(), it.size(), it.indexAt(i), it.indexOf(h): the
\* call and what it returns are recorded, a hash in out (none is <<>>), a number
\* in val; what the method does to the generator is what the next state holds in g
IterRead(op, i) ==
  /\ it' = [ g |-> it.g, op |-> op, arg |-> i,
             out |-> CASE op = "current" -> << current(it.g) >>
                       [] op = "indexAt" -> << indexAt(it.g, i) >>
                       [] OTHER          -> <<>>,
             val |-> CASE op = "currentIndex" -> currentIndex(it.g)
                       [] op = "size"         -> size(it.g)
                       [] op = "indexOf"      ->
                            indexOf(it.g, buf2hex(Chain(it.g.chainSpecificHash, i), TRUE))
                       [] OTHER               -> 0 ]
  /\ DocUnchanged /\ UNCHANGED <<other, codec, file, cipher, handle>>

\* await other.next(n)
OtherNext(n) ==
  /\ other.hashPtr + n < MaxChain
  /\ other' = HashIterator_next(other, n).g
  /\ DocUnchanged /\ UNCHANGED <<it, codec, file, cipher, handle>>

\* other.reset(n)
OtherReset(n) ==
  /\ other' = reset(other, n)
  /\ DocUnchanged /\ UNCHANGED <<it, codec, file, cipher, handle>>

----------------------------------------------------------------------------
(* _discoverSignatures and Document.verify *)

\* `await hashes.next(n)` and the hex of the hashes it returns: the query's ids.
\* The iterator is local to the discovery until verify() installs it, so the
\* awaits inside next() are invisible to every other call.
\* (DiscoverBatch_reversed is a faulty variant: the ids in reverse order.)
DiscoverBatch_reversed(g, n) ==
  LET r == HashIterator_next(g, n)
  IN [g |-> r.g,
      ids |-> [j \in 1..Len(r.f.out) |-> buf2hex(r.f.out[Len(r.f.out) + 1 - j], TRUE)]]

DiscoverBatch(g, n) ==
  LET r == HashIterator_next(g, n)
  IN [g |-> r.g, ids |-> [j \in 1..Len(r.f.out) |-> buf2hex(r.f.out[j], TRUE)]]

\* a faulty decoding of a batch: entries that parseLog does not parse are left out
ParseEvents_skipsUnparsed(events) ==
  LET parsed == SelectSeq(events, LAMBDA e : e.kind # "junk")
  IN [j \in 1..Len(parsed) |-> _decodeSignatureEvent(parsed[j])]

\* Promise.all(events.map(e => _decodeSignatureEvent(e, encryptionKey)))
ParseEvents(events) == [j \in 1..Len(events) |-> _decodeSignatureEvent(events[j])]

\* signatureEvents.push(...parsedEvents)
\* (PushEvents_replace is a faulty variant: the batch replaces the list.)
PushEvents_replace(signatureEvents, parsedEvents) == parsedEvents

PushEvents(signatureEvents, parsedEvents) == signatureEvents \o parsedEvents

\* a faulty fold: the index is not updated from the batch
LastSignatureIndex_unfolded(g, last, parsedEvents) == last

RECURSIVE LastSignatureIndex(_, _, _)
\* parsedEvents.forEach: lastSignatureIndex becomes the largest index found
LastSignatureIndex(g, last, parsedEvents) ==
  IF parsedEvents = <<>> THEN last
  ELSE LET sigNumber == indexOf(g, Head(parsedEvents).signature)
       IN LastSignatureIndex(g, IF sigNumber > last THEN sigNumber ELSE last,
                             Tail(parsedEvents))

\* (DiscoveryEnds_never is faulty too: the test is missing, the discovery goes on.)
DiscoveryEnds_never(parsedEvents) == FALSE

\* the test that ends the discovery
\* (DiscoveryEnds_below is a faulty variant: fewer than a batch, not "not a batch".)
DiscoveryEnds_below(parsedEvents) == Len(parsedEvents) < MAX_SIGS_PER_DISCOVERY_ITERATION

DiscoveryEnds(parsedEvents) == Len(parsedEvents) # MAX_SIGS_PER_DISCOVERY_ITERATION

\* a faulty end of the discovery: the iterator is returned as next() left it
DiscoveryResult_noReset(g, lastSignatureIndex) == g

\* where the discovery leaves the iterator it returns
DiscoveryResult(g, lastSignatureIndex) == reset(g, lastSignatureIndex)

VerifySettled(status, error, value, fr, ptr) ==
  [NoSettled EXCEPT !.op = "verify", !.status = status, !.error = error, !.value = value,
                    !.ptr = ptr, !.responses = fr.responses]

\* verify() is called: a fresh iterator, extended by the first batch, and the
\* first query
verify ==
  /\ \E v \in VerifyFrames : verifies[v].pc = "idle"
  /\ LET v  == FreeVerify
         id == DiscoveryIterator(v)
         b  == DiscoverBatch(NewHashIterator(DocumentHash, NetworkChainId),
                             MAX_SIGS_PER_DISCOVERY_ITERATION)
     IN /\ iterators' = [iterators EXCEPT ![id] = b.g]
        /\ verifies' = [verifies EXCEPT ![v] =
             [pc |-> "query", gen |-> id, signatureEvents |-> <<>>,
              lastSignatureIndex |-> -1, ids |-> b.ids, responses |-> <<>>]]
  /\ settled' = NoSettled
  /\ UNCHANGED <<hashes, signingInProgress, signs, run>>
  /\ IterUnchanged /\ WorldUnchanged

\* the discovery rejects, and verify() with it: nothing is installed
\* (VerifyRejects_installs is a faulty variant: the iterator of the failed
\* discovery is installed.)
VerifyRejects_installs(v, error, fr) ==
  /\ hashes' = Installed
  /\ verifies' = [verifies EXCEPT ![v] = IdleVerify]
  /\ iterators' = [iterators EXCEPT ![Installed] = iterators[fr.gen], ![fr.gen] = NoIterator]
  /\ settled' = VerifySettled("rejected", error, <<>>, fr, iterators[fr.gen].hashPtr)
  /\ UNCHANGED <<signingInProgress, signs, run>>

VerifyRejects(v, error, fr) ==
  LET vf1 == [verifies EXCEPT ![v] = IdleVerify]
  IN /\ verifies' = vf1
     /\ iterators' = Collect(iterators, hashes, signs, vf1)
     /\ settled' = VerifySettled("rejected", error, <<>>, fr,
                                 IF hashes = 0 THEN 0 ELSE iterators[hashes].hashPtr)
     /\ UNCHANGED <<hashes, signingInProgress, signs, run>>

\* a faulty handler of verify(): a generator that is installed already is kept
VerifyResolves_keepsPrevious(v, g, signatureEvents, fr) ==
  LET vf1 == [verifies EXCEPT ![v] = IdleVerify]
      kept == IF hashes = Installed THEN iterators[Installed] ELSE g
      its1 == [iterators EXCEPT ![Installed] = kept, ![fr.gen] = NoIterator]
  IN /\ hashes' = Installed
     /\ verifies' = vf1
     /\ signs' = [s \in 1..MaxSigns |-> [signs[s] EXCEPT !.fresh = FALSE]]
     /\ iterators' = Collect(its1, Installed, signs, vf1)
     /\ settled' = VerifySettled("resolved", "", signatureEvents, fr, kept.hashPtr)
     /\ run' = [p |-> kept.hashPtr, sigs |-> <<>>]
     /\ UNCHANGED <<signingInProgress>>

\* the discovery resolves and the handler of verify() installs its iterator
VerifyResolves(v, g, signatureEvents, fr) ==
  LET vf1 == [verifies EXCEPT ![v] = IdleVerify]
      held == { s \in 1..MaxSigns : signs[s].pc # "idle" /\ signs[s].gen = Installed }
      d == FreeDetached
      its1 == [i \in 1..MaxIterators |->
                 IF i = Installed THEN g
                 ELSE IF i = fr.gen THEN NoIterator
                 ELSE IF held # {} /\ i = d THEN iterators[Installed]
                 ELSE iterators[i]]
      sg1 == [s \in 1..MaxSigns |->
                [signs[s] EXCEPT !.fresh = FALSE,
                                 !.gen = IF s \in held THEN d ELSE @]]
  IN /\ hashes' = Installed
     /\ verifies' = vf1
     /\ signs' = sg1
     /\ iterators' = Collect(its1, Installed, sg1, vf1)
     /\ settled' = VerifySettled("resolved", "", signatureEvents, fr, g.hashPtr)
     /\ run' = [p |-> g.hashPtr, sigs |-> <<>>]
     /\ UNCHANGED <<signingInProgress>>

\* the registry's answer to a query: the published ids among those asked, in
\* the order asked
RECURSIVE RegistryAnswer(_, _)
RegistryAnswer(ids, publishedHex) ==
  IF ids = <<>> THEN <<>>
  ELSE (IF Head(ids) \in publishedHex THEN << LogEntry("log", Head(ids)) >> ELSE <<>>)
         \o RegistryAnswer(Tail(ids), publishedHex)

\* Answers of a collaborator that may return anything: some of the ids asked, in
\* any order, possibly followed by one more record
IdPicks == { <<>>, <<3, 1, 3>>, [j \in 1..9 |-> j], [j \in 1..10 |-> 11 - j] }

\* no further record; one that does not parse; one that makes parseLog throw;
\* the first element of the next batch, which the iterator does not hold yet;
\* the first element of this batch with an annotation encrypted under another
\* document's key; the same with a ciphertext on which hexToBuf throws
ExtraRecords(batch) ==
  { <<>>,
    << LogEntry("junk", EmptyString) >>,
    << LogEntry("bad", EmptyString) >>,
    << LogEntry("log", ChainHex(MAX_SIGS_PER_DISCOVERY_ITERATION * batch)) >>,
    << [ LogEntry("log", ChainHex(MAX_SIGS_PER_DISCOVERY_ITERATION * (batch - 1)))
           EXCEPT !.data = EncryptedPayload("string", <<104, 105>>, OtherKey) ] >>,
    << [ LogEntry("log", ChainHex(MAX_SIGS_PER_DISCOVERY_ITERATION * (batch - 1)))
           EXCEPT !.data = PayloadPrefix(129) \o Str(<<10>>) ] >> }

AnyAnswers(ids, batch) ==
  { [j \in 1..Len(pick) |-> LogEntry("log", ids[pick[j]])] \o extra :
      pick \in IdPicks, extra \in ExtraRecords(batch) }

\* a few of them: nothing; three records out of order, without and with the
\* last id asked; the ten ids asked in reverse order; a record that makes
\* parseLog throw
FewAnswers(ids) ==
  { <<>>,
    [j \in 1..3 |-> LogEntry("log", ids[<<3, 1, 3>>[j]])],
    [j \in 1..3 |-> LogEntry("log", ids[<<Len(ids), 1, Len(ids)>>[j]])],
    [j \in 1..Len(ids) |-> LogEntry("log", ids[Len(ids) + 1 - j])],
    << LogEntry("bad", EmptyString) >> }

HasBad(events) == \E j \in 1..Len(events) : events[j].kind = "bad"

\* the answers the query of verify frame v can get; the last batch the model
\* allows is not answered so that a further batch would be needed
Answers(v) ==
  LET fr == verifies[v]
      batch == Len(fr.responses) + 1
  IN IF fr.pc # "query" THEN {}
     ELSE IF oracle = "registry"
       THEN { RegistryAnswer(fr.ids, { ChainHex(i) : i \in published }) }
       ELSE { a \in (IF oracle = "any" THEN AnyAnswers(fr.ids, batch) ELSE FewAnswers(fr.ids)) :
                batch < MaxBatches \/ HasBad(a) \/ DiscoveryEnds(a) }

\* network.querySignatures resolves with `events`: they are decoded, appended
\* and folded into lastSignatureIndex; the discovery ends or asks the next batch
query_resolve(v, events) ==
  /\ verifies[v].pc = "query"
  /\ LET fr0 == verifies[v]
         fr  == [fr0 EXCEPT !.responses = Append(fr0.responses, events)]
     IN IF HasBad(events)
          THEN VerifyRejects(v, "decode error", fr)
          ELSE
            LET g == iterators[fr.gen]
                parsedEvents == ParseEvents(events)
                signatureEvents == PushEvents(fr.signatureEvents, parsedEvents)
                last == LastSignatureIndex(g, fr.lastSignatureIndex, parsedEvents)
            IN IF DiscoveryEnds(parsedEvents)
                 THEN VerifyResolves(v, DiscoveryResult(g, last), signatureEvents, fr)
                 ELSE LET b == DiscoverBatch(g, MAX_SIGS_PER_DISCOVERY_ITERATION)
                      IN /\ iterators' = [iterators EXCEPT ![fr.gen] = b.g]
                         /\ verifies' = [verifies EXCEPT ![v] =
                              [fr EXCEPT !.signatureEvents = signatureEvents,
                                         !.lastSignatureIndex = last,
                                         !.ids = b.ids]]
                         /\ settled' = NoSettled
                         /\ UNCHANGED <<hashes, signingInProgress, signs, run>>
  /\ IterUnchanged /\ WorldUnchanged

\* network.querySignatures rejects
query_reject(v) ==
  /\ verifies[v].pc = "query"
  /\ VerifyRejects(v, "query error", verifies[v])
  /\ IterUnchanged /\ WorldUnchanged

----------------------------------------------------------------------------
(* Specifications *)

IdleCodec ==
  [pc |-> "idle", data |-> Annotation("undefined", "undefined", Undefined), iv |-> <<>>,
   enc |-> EncodeError(""), key |-> EncryptionKey(<<>>), dec |-> [type |-> "none"],
   sent |-> <<>>]

IdleIter == [g |-> NoIterator, op |-> "new", arg |-> 0, out |-> <<>>, val |-> 0]

\* a JavaScript value that is a buffer
Buffer(h) == [t |-> "buffer", s |-> h]

\* the boolean a condition makes of a value: undefined is falsy, an object
\* (a buffer of any length, an EncryptionKey) is truthy
ToBoolean(v) == v.t # "undefined"

\* the value of a field holding new EncryptionKey(hash)
KeyObject(h) == [t |-> "EncryptionKey", s |-> EncryptionKey(h).hash]

\* the frames of the verify() calls on the instance, none made
NoFileCalls == [c \in 1..MaxFileVerifies |-> [pc |-> "idle", error |-> ""]]

\* the fields of a Document before its constructor runs; reads and hashed
\* count the hashFile calls made and resolved, last is the last operation
IdleFile ==
  [kind |-> "none", data |-> <<>>, documentHash |-> Undefined, encryptionKey |-> Undefined,
   calls |-> NoFileCalls, reads |-> 0, hashed |-> 0, last |-> [op |-> "new", error |-> ""]]

\* an EncryptionKey as constructed: no key; key is the number of the importKey
\* call whose CryptoKey this.key holds, 0 for undefined
IdleCipher ==
  [hash |-> <<>>, key |-> 0, imports |-> 0,
   calls |-> [c \in 1..MaxKeyCalls |-> [pc |-> "idle", op |-> "none", key |-> 0]]]

\* a transaction receipt as getTransactionReceipt resolves with it: null, or a
\* receipt with its status (1 success, 0 reverted)
NullReceipt == [kind |-> "null", status |-> 0]

Receipt(status) == [kind |-> "receipt", status |-> status]

\* no publishSignature was called: no promise
NoHandle ==
  [pc |-> "none", blockTime |-> 0, networkLatency |-> 0, timer |-> 0, polls |-> 0,
   state |-> "none", value |-> NullReceipt, calls |-> 0]

InitDocument ==
  /\ hashes = 0
  /\ signingInProgress = FALSE
  /\ iterators = [i \in 1..MaxIterators |-> NoIterator]
  /\ signs = [s \in 1..MaxSigns |-> IdleSign]
  /\ verifies = [v \in VerifyFrames |-> IdleVerify]
  /\ run = [p |-> -1, sigs |-> <<>>]
  /\ settled = NoSettled

\* a Document that is verified and signed, in any interleaving
Init ==
  /\ InitDocument
  /\ published = {}
  /\ oracle = "few"
  /\ it = IdleIter
  /\ other = NoIterator
  /\ codec = IdleCodec
  /\ file = IdleFile
  /\ cipher = IdleCipher
  /\ handle = NoHandle

Next ==
  \/ \E data \in Annotations : sign(data)
  \/ \E s \in 1..MaxSigns : sign_next(s)
  \/ \E s \in 1..MaxSigns : publish_resolve(s)
  \/ \E s \in 1..MaxSigns : publish_reject(s)
  \/ verify
  \/ \E v \in VerifyFrames : \E events \in Answers(v) : query_resolve(v, events)
  \/ \E v \in VerifyFrames : query_reject(v)

Spec == Init /\ [][Next]_vars

\* a Document that is verified again and again, on a network whose query
\* collaborator may answer anything
InitDiscovery ==
  /\ InitDocument
  /\ published = {}
  /\ oracle = "any"
  /\ it = IdleIter
  /\ other = NoIterator
  /\ codec = IdleCodec
  /\ file = IdleFile
  /\ cipher = IdleCipher
  /\ handle = NoHandle

NextDiscovery ==
  \/ verify
  \/ \E v \in VerifyFrames : \E events \in Answers(v) : query_resolve(v, events)
  \/ \E v \in VerifyFrames : query_reject(v)

SpecDiscovery == InitDiscovery /\ [][NextDiscovery]_vars

\* the index of the last chain element the model's registries can hold
LastIndex == MAX_SIGS_PER_DISCOVERY_ITERATION * MaxBatches - 1

\* the registries: a published prefix of the chain, possibly with one hole (a
\* signer that never published) and one element beyond it; the last batch the
\* model allows is never completely published
PublishedWithPrefix(m) ==
  { ((0..(m - 1)) \ hole) \cup beyond :
      hole \in { {} , {0}, {m - 2}, {MAX_SIGS_PER_DISCOVERY_ITERATION - 1} },
      beyond \in { {}, {m + 1}, {LastIndex} } }

PublishedSets ==
  { p \in UNION { PublishedWithPrefix(m) : m \in 0..LastIndex } :
      /\ p \subseteq 0..LastIndex
      /\ ~ ((LastIndex - MAX_SIGS_PER_DISCOVERY_ITERATION + 1)..LastIndex \subseteq p) }

\* a Document on a network whose query collaborator answers from a registry
InitRegistry ==
  /\ InitDocument
  /\ published \in PublishedSets
  /\ oracle = "registry"
  /\ it = IdleIter
  /\ other = NoIterator
  /\ codec = IdleCodec
  /\ file = IdleFile
  /\ cipher = IdleCipher
  /\ handle = NoHandle

NextRegistry ==
  \/ verify
  \/ \E v \in VerifyFrames : \E events \in Answers(v) : query_resolve(v, events)

SpecRegistry == InitRegistry /\ [][NextRegistry]_vars

\* a stand-alone HashIterator
InitIter ==
  /\ InitDocument
  /\ published = {}
  /\ oracle = "any"
  /\ \E d \in DocumentHashes, c \in ChainIds :
       it = [g |-> NewHashIterator(d, c), op |-> "new", arg |-> 0, out |-> <<>>, val |-> 0]
  /\ other = NoIterator
  /\ codec = IdleCodec
  /\ file = IdleFile
  /\ cipher = IdleCipher
  /\ handle = NoHandle

NextIter ==
  \/ \E n \in 1..MaxNext : IterNext(n)
  \/ \E n \in (-2)..(MaxChain - 1) : IterReset(n)
  \/ \E op \in {"current", "currentIndex", "size"} : IterRead(op, 0)
  \/ \E op \in {"indexAt", "indexOf"} : \E i \in 0..(MaxChain - 1) : IterRead(op, i)

SpecIter == InitIter /\ [][NextIter]_vars

\* two generators constructed independently with the same (documentHash, chainId),
\* each driven by its own sequence of next(n) and reset(n) calls
InitPair ==
  /\ InitDocument
  /\ published = {}
  /\ oracle = "any"
  /\ \E d \in DocumentHashes, c \in ChainIds :
       /\ it = [g |-> NewHashIterator(d, c), op |-> "new", arg |-> 0, out |-> <<>>, val |-> 0]
       /\ other = NewHashIterator(d, c)
  /\ codec = IdleCodec
  /\ file = IdleFile
  /\ cipher = IdleCipher
  /\ handle = NoHandle

NextPair ==
  \/ \E n \in 1..MaxNext : IterNext(n)
  \/ \E n \in (-2)..(MaxChain - 1) : IterReset(n)
  \/ \E n \in 1..MaxNext : OtherNext(n)
  \/ \E n \in (-2)..(MaxChain - 1) : OtherReset(n)

SpecPair == InitPair /\ [][NextPair]_vars

\* the annotations given to _encodeData: every type, flag and content the code
\* tells apart. Strings: 'hi', two code units above 0xff (U+00E9 below 0x1000,
\* U+4E2D above it), ''. Hex: '0x', '0xab', '0xAB', '0xabc' (an odd number of
\* digits), '0xg' and 'ab' (which isHexString refuses).
CodecContents ==
  { Undefined, NumberContent, StringContent(<<>>), StringContent(<<104, 105>>),
    StringContent(<<233, 20013>>), StringContent(<<48, 120>>),
    StringContent(<<48, 120, 97, 98>>), StringContent(<<48, 120, 65, 66>>),
    StringContent(<<48, 120, 97, 98, 99>>), StringContent(<<48, 120, 103>>),
    StringContent(<<97, 98>>) }

CodecAnnotations ==
  { Annotation(t, e, c) : t \in {"string", "hex", "invalid-type", "undefined"},
                          e \in {"undefined", "false", "true", "'invalid'", "0"},
                          c \in CodecContents }

\* s with the character at 0-based index i replaced by c
WithCharAt(s, i, c) == [s EXCEPT ![i + 1] = Char(c)]

\* payloads of Signature events as anyone may have published them: absent,
\* '0x', of one, one and a half and two bytes, of every type byte the decoder
\* tells apart (00, 01, 80, 81, 02, 82, ff), of another version, with a type
\* byte that is not hex, unencrypted with content ('hi', '0xab', an odd number
\* of digits), encrypted under this document's key and under another's, and
\* encrypted but corrupted: too short for an iv, a changed iv, a line feed
OnChainPayloads ==
  { <<>>, Str(<<48, 120>>), Str(<<48, 120, 48, 48>>), Str(<<48, 120, 48, 48, 48>>) }
  \cup { PayloadPrefix(b) : b \in {0, 1, 128, 129, 2, 130, 255} }
  \cup { WithCharAt(PayloadPrefix(0), 3, 49), WithCharAt(PayloadPrefix(1), 5, 122),
         PayloadPrefix(0) \o Str(<<48, 48, 54, 56, 48, 48, 54, 57>>),
         PayloadPrefix(1) \o Str(<<97, 98>>), PayloadPrefix(1) \o Str(<<97, 98, 99>>),
         PayloadPrefix(2) \o Str(<<97, 98>>),
         EncryptedPayload("string", <<104, 105>>, DocumentKey),
         EncryptedPayload("hex", <<48, 120, 97, 98>>, DocumentKey),
         EncryptedPayload("string", <<104, 105>>, OtherKey),
         EncryptedPayload("hex", <<48, 120, 97, 98>>, OtherKey),
         WithCharAt(EncryptedPayload("string", <<104, 105>>, DocumentKey), 7, 102),
         PayloadPrefix(128) \o Str(<<97, 98, 99, 100>>),
         PayloadPrefix(129) \o Str(<<10>>),
         PayloadPrefix(130) \o Str(<<97, 98>>) }

CodecUnchanged ==
  UNCHANGED <<hashes, signingInProgress, iterators, signs, verifies, run, settled,
              published, oracle, it, other, file, cipher, handle>>

\* encodedData = await _encodeData(data, encryptionKey), encrypt() drawing iv
CodecEncode(iv) ==
  /\ codec.pc = "new"
  /\ codec' = [codec EXCEPT !.pc = "encoded", !.iv = iv,
                            !.enc = _encodeData(codec.data, DocumentKey, iv)]
  /\ CodecUnchanged

\* _publishSignature: network.publishSignature(signature, encodedData)
CodecPublish ==
  /\ codec.pc = "encoded"
  /\ codec.enc.ok
  /\ codec' = [codec EXCEPT !.pc = "sent", !.sent = codec.enc.value]
  /\ CodecUnchanged

\* _decodeData(encodedData, key) of the payload, by a Document of the same
\* content or of another
CodecDecode(key) ==
  /\ codec.pc = "encoded"
  /\ codec.enc.ok
  /\ codec' = [codec EXCEPT !.pc = "decoded", !.key = key,
                            !.dec = _decodeData(codec.enc.value, key)]
  /\ CodecUnchanged

\* _decodeData(log.args[3], key) of a payload read from the chain
CodecRead(key) ==
  /\ codec.pc = "onchain"
  /\ codec' = [codec EXCEPT !.pc = "read", !.key = key, !.dec = _decodeData(codec.sent, key)]
  /\ CodecUnchanged

\* an annotation to encode, or a payload that was published by anyone
InitCodec ==
  /\ InitDocument
  /\ published = {}
  /\ oracle = "any"
  /\ it = IdleIter
  /\ other = NoIterator
  /\ \/ \E data \in CodecAnnotations : codec = [IdleCodec EXCEPT !.pc = "new", !.data = data]
     \/ \E payload \in OnChainPayloads :
          codec = [IdleCodec EXCEPT !.pc = "onchain", !.sent = payload]
  /\ file = IdleFile
  /\ cipher = IdleCipher
  /\ handle = NoHandle

NextCodec ==
  \/ \E iv \in Nonces : CodecEncode(iv)
  \/ CodecPublish
  \/ \E key \in {DocumentKey, OtherKey} : CodecDecode(key)
  \/ \E key \in {DocumentKey, OtherKey} : CodecRead(key)

SpecCodec == InitCodec /\ [][NextCodec]_vars

----------------------------------------------------------------------------
(* Properties *)

\* the sign() calls in flight
InFlightSigns == { s \in 1..MaxSigns : signs[s].pc # "idle" }

\* the sign() calls whose publish call has been made and has not settled
PublishesInFlight == { s \in 1..MaxSigns : signs[s].pc = "publish" }

SignRejectedWith(error) ==
  settled.op = "sign" /\ settled.status = "rejected" /\ settled.error = error

VerifyResolved == settled.op = "verify" /\ settled.status = "resolved"

VerifyRejected == settled.op = "verify" /\ settled.status = "rejected"

\* C1: while the Document has no generator, no sign() is in flight and the busy
\* flag is false; a sign() called then is rejected with "Must verify before
\* signing", has made no publish call, and changes nothing: the generator stays
\* absent, the flag false, no call frame and no iterator is touched.
C1_SignBeforeVerify ==
  /\ [](hashes = 0 => ~signingInProgress /\ InFlightSigns = {})
  /\ [][ (hashes = 0 /\ settled'.op = "sign") =>
           /\ settled'.status = "rejected"
           /\ settled'.error = "Must verify before signing"
           /\ settled'.calls = 0
           /\ hashes' = 0
           /\ signingInProgress' = FALSE
           /\ UNCHANGED <<iterators, signs, verifies, run>> ]_vars

\* a sign() on a Document that was never verified has just been rejected
C1_Witness ==
  SignRejectedWith("Must verify before signing") /\ hashes = 0 /\ settled.calls = 0

\* C2: at most one sign() is in flight, hence at most one publish call; while
\* one is in flight no step starts another, and a sign() called then (a sign
\* settles in the step although no sign in flight ended) is rejected with
\* "Signing already in progress", has made no publish call, and leaves the
\* generator, its pointer, the flag and the sign in flight as they were.
C2_OnePublishInFlight ==
  /\ [](Cardinality(InFlightSigns) <= 1 /\ Cardinality(PublishesInFlight) <= 1)
  /\ [][ InFlightSigns # {} =>
           /\ InFlightSigns' \subseteq InFlightSigns
           /\ (settled'.op = "sign" /\ InFlightSigns' = InFlightSigns) =>
                /\ settled'.status = "rejected"
                /\ settled'.error = "Signing already in progress"
                /\ settled'.calls = 0
                /\ UNCHANGED <<hashes, signingInProgress, iterators, signs, verifies, run>> ]_vars

\* a sign() has just been rejected as concurrent while a publish call is pending
C2_Witness ==
  SignRejectedWith("Signing already in progress") /\ PublishesInFlight # {}

\* C3 (as claimed): when the publish collaborator has rejected a sign(), and
\* the last verify() left the pointer where it was before that sign() was
\* called, the pointer of the Document's generator is back at its value before
\* the call.
C3_RejectedSignRewinds ==
  (SignRejectedWith("Failed to publish signature") /\ run.p = settled.ptrBefore)
    => iterators[hashes].hashPtr = settled.ptrBefore

\* C4 (as claimed): the sign() calls made since the last verify() that have
\* succeeded have published, in order, the chain elements p+1, p+2, ... where p
\* is the pointer that verify() left.
C4_SignsPublishNextElements ==
  \A j \in 1..Len(run.sigs) : run.sigs[j] = ChainHex(run.p + j)

\* C5 (as claimed): a sign() called after the last verify(), with no sign()
\* called after it having succeeded yet, calls the publish collaborator with
\* the chain element one after the index that verify() found.
C5_FirstSignAfterVerify ==
  \A s \in PublishesInFlight :
    (signs[s].fresh /\ run.sigs = <<>>) => signs[s].signature = ChainHex(run.p + 1)

\* the chain indices, among the first 10*b, of the entries of the b-th answer of
\* the discovery that has just settled (what the iterator held when the answer
\* was processed)
EntryIndices(b) ==
  { i \in 0..(MAX_SIGS_PER_DISCOVERY_ITERATION * b - 1) :
      \E j \in 1..Len(settled.responses[b]) :
        /\ settled.responses[b][j].kind = "log"
        /\ settled.responses[b][j].signature = ChainHex(i) }

Highest(S) == IF S = {} THEN -1 ELSE CHOOSE x \in S : \A y \in S : y <= x

\* The part of C5 that holds: when verify() resolves, the pointer of the
\* Document's generator is the highest chain index among the entries returned
\* over all batches, -1 when none matches; an entry counts when the iterator
\* held its element at the time its batch was processed.
PointerWhenVerifyResolves ==
  VerifyResolved =>
    /\ hashes = Installed
    /\ iterators[hashes].hashPtr =
         Highest(UNION { EntryIndices(b) : b \in 1..Len(settled.responses) })

\* the signatures of the event list a verify() has resolved with
FoundSignatures == { settled.value[j].signature : j \in 1..Len(settled.value) }

BatchIndices(b) ==
  (MAX_SIGS_PER_DISCOVERY_ITERATION * b)..(MAX_SIGS_PER_DISCOVERY_ITERATION * (b + 1) - 1)

\* the first batch of the chain that is not published completely
FirstShortBatch ==
  CHOOSE b \in 0..(MaxBatches - 1) :
    /\ ~ (BatchIndices(b) \subseteq published)
    /\ \A c \in 0..(b - 1) : BatchIndices(c) \subseteq published

\* C6 (as claimed): with a registry that returns the published elements among
\* the ids asked, every published chain element is in the event list verify()
\* resolves with.
C6_NeverMisses ==
  VerifyResolved => \A i \in published : ChainHex(i) \in FoundSignatures

\* C6 (amended): with such a registry, verify() asks the batches up to and
\* including the first one that is not published completely, and resolves with
\* exactly the published elements of those batches, each once; so it misses
\* nothing when no element is published beyond that batch (a gap inside it is
\* tolerated), and a chain of m elements without gaps costs floor(m/10)+1 queries.
C6_FoundUpToFirstShortBatch ==
  VerifyResolved =>
    LET asked == UNION { BatchIndices(b) : b \in 0..FirstShortBatch }
    IN /\ Len(settled.responses) = FirstShortBatch + 1
       /\ FoundSignatures = { ChainHex(i) : i \in published \cap asked }
       /\ Len(settled.value) = Cardinality(published \cap asked)

\* a verify() has resolved after two queries and has found elements of the
\* second batch on both sides of a gap
C6_Witness ==
  /\ VerifyResolved
  /\ oracle = "registry"
  /\ Len(settled.responses) = 2
  /\ \E i \in BatchIndices(1) :
       /\ i \notin published
       /\ ChainHex(i - 1) \in FoundSignatures
       /\ ChainHex(i + 1) \in FoundSignatures

\* C7: a discovery asks another batch exactly when the batch just processed
\* returned exactly 10 entries: every batch a discovery in flight has processed
\* returned 10 entries, and the last batch of a discovery that has resolved did
\* not, while all its earlier batches did. The number of queries is the number
\* of leading batches of 10 entries plus one.
C7_AnotherBatchIffFull ==
  /\ \A v \in VerifyFrames :
       verifies[v].pc = "query" =>
         \A j \in 1..Len(verifies[v].responses) :
           Len(verifies[v].responses[j]) = MAX_SIGS_PER_DISCOVERY_ITERATION
  /\ VerifyResolved =>
       LET n == Len(settled.responses)
       IN /\ n >= 1
          /\ Len(settled.responses[n]) # MAX_SIGS_PER_DISCOVERY_ITERATION
          /\ \A j \in 1..(n - 1) :
               Len(settled.responses[j]) = MAX_SIGS_PER_DISCOVERY_ITERATION

\* a verify() has resolved after exactly two queries, answered with 10 entries
\* and then with 3
C7_Witness ==
  /\ VerifyResolved
  /\ Len(settled.responses) = 2
  /\ Len(settled.responses[1]) = 10
  /\ Len(settled.responses[2]) = 3

\* C8: the query in flight of a discovery that has processed k batches carries
\* the hex of the 10 chain elements 10k .. 10k+9 of the Document's chain, in
\* chain order.
C8_QueryIds ==
  \A v \in VerifyFrames :
    verifies[v].pc = "query" =>
      verifies[v].ids =
        [j \in 1..MAX_SIGS_PER_DISCOVERY_ITERATION |->
           ChainHex(MAX_SIGS_PER_DISCOVERY_ITERATION * Len(verifies[v].responses) + j - 1)]

\* the second query of a discovery is in flight
C8_Witness ==
  \E v \in VerifyFrames : verifies[v].pc = "query" /\ Len(verifies[v].responses) = 1

\* C9: no step of a verify() other than the one in which it resolves changes
\* the Document: from the call to the rejection, the reference to the
\* generator, the generator object (elements and pointer) and the busy flag
\* stay what they were.
C9_RejectedVerifyExposesNothing ==
  [][ (verifies' # verifies /\ ~VerifyResolved') =>
        /\ hashes' = hashes
        /\ signingInProgress' = signingInProgress
        /\ iterators'[Installed] = iterators[Installed] ]_vars

\* a verify() has just been rejected in its second batch (its own iterator
\* held two batches), on a Document whose generator holds one
C9_Witness ==
  /\ VerifyRejected
  /\ Len(settled.responses) >= 1
  /\ hashes = Installed
  /\ Len(iterators[Installed].hashes) = MAX_SIGS_PER_DISCOVERY_ITERATION

\* C10: every element the stand-alone iterator holds is the element of the
\* standard's chain at its index.
C10_ChainRecurrence ==
  /\ (it.g.hashes # <<>> => it.g.chainSpecificHash # <<>>)
  /\ \A i \in 1..Len(it.g.hashes) :
       it.g.hashes[i] = Chain(it.g.chainSpecificHash, i - 1)

\* a next() has just returned on an iterator that was reset before and whose
\* elements come from several calls
C10_Witness ==
  /\ it.op = "next"
  /\ Len(it.g.hashes) > MaxNext + 1
  /\ it.g.hashPtr < Len(it.g.hashes) - 1
  /\ it.g.hashes[Len(it.g.hashes)] = Chain(it.g.chainSpecificHash, Len(it.g.hashes) - 1)

----------------------------------------------------------------------------
(* The chain-specific hash *)

\* the string ''+n: the characters '0'..'9' (code units 48..57) of the decimal
\* notation of n
DecimalString(n) == LET d == DecimalDigits(n) IN Str([i \in 1..Len(d) |-> 48 + d[i]])

\* the bytes of the string's characters (all of them ASCII): its UTF-8 encoding
AsciiBytes(str) == [i \in 1..Len(str) |-> Byte(str[i].byte)]

\* the numbers the characters of a string of digits denote, one byte each
DigitValueBytes(str) == [i \in 1..Len(str) |-> Byte(str[i].byte - 48)]

\* C11 as stated: Hc is SHA-256 of the ASCII bytes of the chain id's decimal
\* string followed by the document hash.
C11_HcOfAsciiBytes ==
  it.g.chainSpecificHash # <<>> =>
    it.g.chainSpecificHash =
      hash(concatBuffers(AsciiBytes(DecimalString(it.g.chainId)), it.g.documentHash))

\* C11: Hc is SHA-256 of one byte per character of the chain id's decimal string,
\* the byte being the value of the digit (chain id 4 contributes the byte 4, not
\* the character code 52), followed by the document hash.
C11_HcOfDigitValueBytes ==
  it.g.chainSpecificHash # <<>> =>
    it.g.chainSpecificHash =
      hash(concatBuffers(DigitValueBytes(DecimalString(it.g.chainId)), it.g.documentHash))

\* the generator of a multi-digit chain id has computed its Hc
C11_Witness ==
  /\ it.g.chainId > 9
  /\ it.g.chainSpecificHash # <<>>
  /\ it.g.hashes # <<>>

----------------------------------------------------------------------------
(* The generator's interface *)

\* the step is a call of next() on the stand-alone generator
IsNextStep == it' # it /\ it'.op = "next"

Max(a, b) == IF a >= b THEN a ELSE b

\* C12: next(n) with the pointer at p >= -1 leaves at least p+n+1 elements
\* materialized, returns exactly n elements, the chain elements p+1 .. p+n in
\* order, and leaves the pointer at p+n, also after a reset to a lower index.
C12_NextReturnsNextElements ==
  [][ (IsNextStep /\ it.g.hashPtr >= -1) =>
        LET p == it.g.hashPtr
            n == it'.arg
        IN /\ Len(it'.g.hashes) >= p + n + 1
           /\ Len(it'.out) = n
           /\ \A j \in 1..n : /\ it'.out[j] = Chain(it'.g.chainSpecificHash, p + j)
                              /\ it'.out[j] = indexAt(it'.g, p + j)
           /\ currentIndex(it'.g) = p + n ]_vars

\* a next(n > 1) after a reset to a lower index has returned elements that were
\* materialized before it
C12_Witness ==
  /\ it.op = "next"
  /\ it.arg > 1
  /\ Len(it.out) = it.arg
  /\ it.g.hashPtr >= it.arg
  /\ it.g.hashPtr < Len(it.g.hashes) - 1

\* C13: no operation of the generator removes, reorders or changes a materialized
\* element: every step keeps the materialized sequence as a prefix (and Hc once it
\* is set); the read operations and reset change nothing but, for reset, the
\* pointer; next() appends exactly the elements that are missing.
C13_AppendOnly ==
  [][ /\ Len(it'.g.hashes) >= Len(it.g.hashes)
      /\ SubSeq(it'.g.hashes, 1, Len(it.g.hashes)) = it.g.hashes
      /\ \A i \in 0..(Len(it.g.hashes) - 1) : indexAt(it'.g, i) = indexAt(it.g, i)
      /\ (it.g.chainSpecificHash # <<>> => it'.g.chainSpecificHash = it.g.chainSpecificHash)
      /\ (it'.op = "reset" => it'.g = [it.g EXCEPT !.hashPtr = it'.arg])
      /\ (it'.op \in {"current", "currentIndex", "size", "indexAt", "indexOf"} => it'.g = it.g)
      /\ (IsNextStep =>
            Len(it'.g.hashes) = Max(Max(Len(it.g.hashes), it.g.hashPtr + it'.arg + 1), 1)) ]_vars

\* a reset has moved the pointer of a generator with several elements below its
\* last element
C13_Witness ==
  /\ it.op = "reset"
  /\ it.arg >= 0
  /\ it.arg < Len(it.g.hashes) - 2
  /\ indexAt(it.g, Len(it.g.hashes) - 1) = Chain(it.g.chainSpecificHash, Len(it.g.hashes) - 1)

\* the generator is as its constructor leaves it
Fresh(g) == g = NewHashIterator(g.documentHash, g.chainId)

\* C14: a fresh generator has currentIndex() -1 and no current(); next(k) on a
\* fresh generator leaves currentIndex() = k-1; reset(n) leaves currentIndex() = n;
\* with the pointer p >= 0 inside the materialized prefix, current() is the
\* element at index p and size() is p+1.
C14_PointerLaw ==
  [][ /\ (Fresh(it.g) => currentIndex(it.g) = -1 /\ current(it.g) = <<>>)
      /\ (Fresh(it.g) /\ IsNextStep => currentIndex(it'.g) = it'.arg - 1)
      /\ (it'.op = "reset" => currentIndex(it'.g) = it'.arg)
      /\ \A p \in 0..(Len(it'.g.hashes) - 1) :
           it'.g.hashPtr = p =>
             /\ current(it'.g) = it'.g.hashes[p + 1]
             /\ current(it'.g) = Chain(it'.g.chainSpecificHash, p)
             /\ size(it'.g) = p + 1 ]_vars

\* current() has been called with the pointer inside the materialized prefix
\* and below its end
C14_Witness ==
  /\ it.op = "current"
  /\ it.g.hashPtr >= 1
  /\ it.g.hashPtr < Len(it.g.hashes) - 1
  /\ it.out = << indexAt(it.g, it.g.hashPtr) >>

\* C15: two generators constructed with the same (documentHash, chainId) agree
\* on every element both have materialized, however the next(n) calls on each
\* were split and whatever resets were interleaved.
C15_Deterministic ==
  /\ it.g.documentHash = other.documentHash /\ it.g.chainId = other.chainId
  /\ \A i \in 0..(MaxChain - 1) :
       (i < Len(it.g.hashes) /\ i < Len(other.hashes)) => indexAt(it.g, i) = indexAt(other, i)

\* the two generators hold prefixes of different lengths, built by different
\* sequences of calls (their pointers differ, one is behind its materialized end)
C15_Witness ==
  /\ Len(it.g.hashes) > MaxNext
  /\ Len(other.hashes) > Len(it.g.hashes)
  /\ it.g.hashPtr < Len(it.g.hashes) - 1
  /\ other.hashPtr = Len(other.hashes) - 1

----------------------------------------------------------------------------
(* The annotation codec *)

\* the annotation is one the codec is for: type 'string' or 'hex' with a string
\* content that is not '' (an annotation without content is no annotation: its
\* payload is '0x'), the flag true or false
CodecDomain(data) ==
  /\ data.type \in {"string", "hex"}
  /\ data.encrypted \in {"true", "false"}
  /\ data.content.t = "string"
  /\ data.content.s # <<>>

\* C16 (as claimed): an annotation of the codec's domain that encode accepts
\* decodes, under the same document key and whatever the nonce, to an annotation
\* of the same type, content and encrypted flag.
C16_RoundTrip ==
  (codec.pc = "decoded" /\ codec.key = DocumentKey /\ CodecDomain(codec.data)) =>
    /\ codec.dec.type = codec.data.type
    /\ codec.dec.content = codec.data.content.s
    /\ codec.dec.encrypted = (codec.data.encrypted = "true")

\* the sign() that settled last was rejected by _encodeData
EncodeRejected ==
  /\ settled.op = "sign"
  /\ settled.status = "rejected"
  /\ settled.error \in { "invalid data type 'invalid-type'", "invalid data content" }

\* C17 (as claimed): a sign() rejected for its annotation has not called the
\* publish collaborator, and leaves the pointer of the Document's generator at
\* its value before the call and the busy flag clear.
C17_InvalidAnnotationRejected ==
  EncodeRejected =>
    /\ settled.calls = 0
    /\ ~ signingInProgress
    /\ iterators[hashes].hashPtr = settled.ptrBefore

\* C18 (as claimed): an annotation with content whose encrypted flag is declared
\* with a value that is not a boolean is rejected with "invalid data encrypted
\* flag" (and so is never published).
C18_NonBooleanFlagRejected ==
  ( /\ codec.pc \in {"encoded", "sent", "decoded"}
    /\ codec.data.content \notin { Undefined, StringContent(<<>>) }
    /\ codec.data.encrypted \notin {"undefined", "true", "false"} ) =>
      /\ ~ codec.enc.ok
      /\ codec.enc.error = "invalid data encrypted flag"
      /\ codec.pc = "encoded"

\* the UTF-16BE bytes of a string: the high and the low byte of every code unit
Utf16Be(str) ==
  [i \in 1..(2 * Len(str)) |->
     LET c == str[(i + 1) \div 2].byte
     IN Byte(IF i % 2 = 1 THEN c \div 256 ELSE c % 256)]

\* the two hex digits of the type byte b
TypeByte(b) == << HexDigit(b \div 16), HexDigit(b % 16) >>

\* C19: a payload of encode other than '0x' is '0x', the version 00, the type
\* byte (0x80 if encrypted) + (0 for 'string', 1 for 'hex'), one of 00, 01, 80,
\* 81, and, when not encrypted, the UTF-16BE hex of the string or the hex content
\* without its '0x'.
C19_PayloadLayout ==
  (codec.pc # "new" /\ codec.enc.ok /\ codec.enc.value # << Char(48), Char(120) >>) =>
    LET v == codec.enc.value
        d == codec.data
        encrypted == d.encrypted = "true"
        b == (IF encrypted THEN 128 ELSE 0) + (IF d.type = "string" THEN 0 ELSE 1)
    IN /\ d.type \in {"string", "hex"}
       /\ d.encrypted \in {"true", "false", "undefined", "0"}
       /\ JsSlice(v, 0, 2) = << Char(48), Char(120) >>
       /\ JsSlice(v, 2, 4) = << Char(48), Char(48) >>
       /\ JsSlice(v, 4, 6) = TypeByte(b)
       /\ JsSlice(v, 4, 6) \in { TypeByte(0), TypeByte(1), TypeByte(128), TypeByte(129) }
       /\ (~ encrypted =>
             JsSlice(v, 6, Len(v)) = IF d.type = "string"
                                       THEN buf2hex(Utf16Be(d.content.s), FALSE)
                                       ELSE JsSlice(d.content.s, 2, Len(d.content.s)))

\* an encrypted 'hex' annotation has been encoded: its type byte is 81
C19_Witness ==
  /\ codec.pc = "encoded"
  /\ codec.enc.ok
  /\ codec.data.type = "hex"
  /\ codec.data.encrypted = "true"
  /\ JsSlice(codec.enc.value, 4, 6) = TypeByte(129)
  /\ Len(codec.enc.value) > 6

\* a string of hex digits in whole bytes after '0x' (a digest's or a
\* ciphertext's hex is whole bytes)
WellFormedHex(s) ==
  /\ JsSlice(s, 0, 2) = << Char(48), Char(120) >>
  /\ \A i \in 3..Len(s) : s[i].byte = -2 \/ HexValue(s[i]) >= 0
  /\ Cardinality({ i \in 3..Len(s) : s[i].byte # -2 }) % 2 = 0

\* C20 (as claimed): every payload handed to the publish collaborator is '0x'
\* followed by hex digits only, an even number of them.
C20_PublishedPayloadWellFormed ==
  codec.pc = "sent" => WellFormedHex(codec.sent)

----------------------------------------------------------------------------
(* Payloads without content, and payloads read from the chain *)

\* C21: an annotation without content (content absent or '', whatever its type
\* and flag, as when sign() is called with no argument) is encoded as '0x', and
\* '0x' is what is passed to the publish collaborator.
C21_NoContentIsEmptyPayload ==
  (codec.pc \in {"encoded", "sent", "decoded"}
     /\ codec.data.content \in { Undefined, StringContent(<<>>) }) =>
    /\ codec.enc = Encoded(<< Char(48), Char(120) >>)
    /\ (codec.pc = "sent" => codec.sent = << Char(48), Char(120) >>)

\* the payload of an annotation with content '' and a flag that is no boolean
\* has been passed to the publish collaborator
C21_Witness ==
  /\ codec.pc = "sent"
  /\ codec.data.content = StringContent(<<>>)
  /\ codec.data.encrypted = "'invalid'"
  /\ codec.sent = << Char(48), Char(120) >>

\* the payload the decoder was given
DecodedPayload == IF codec.pc = "read" THEN codec.sent ELSE codec.enc.value

\* the number a payload's type byte denotes (its characters 4 and 5)
TypeField(payload) == 16 * HexValue(payload[5]) + HexValue(payload[6])

\* the payload has '0x', a version byte and a type byte, all of hex digits
HasHeader(payload) ==
  /\ Len(payload) >= 6
  /\ \A i \in 3..6 : HexValue(payload[i]) >= 0

\* C22: decode ends with an annotation value, never with an exception, for
\* every payload and key; a type byte whose bits below 0x80 are neither 0 nor 1
\* yields the type 'invalid' with a diagnostic.
C22_DecodeNeverThrows ==
  codec.pc \in {"read", "decoded"} =>
    /\ codec.dec.type \in {"none", "invalid", "string", "hex"}
    /\ (HasHeader(DecodedPayload) /\ TypeField(DecodedPayload) % 128 \notin {0, 1}) =>
         /\ codec.dec.type = "invalid"
         /\ codec.dec.invalid = "unrecognised type"

\* an encrypted payload of an unknown type that does not decrypt has been decoded
C22_Witness ==
  /\ codec.pc = "read"
  /\ Len(codec.sent) > 6
  /\ TypeField(codec.sent) = 130
  /\ codec.dec.type = "invalid"

\* the number of bytes of a payload: two hex digits each, after '0x'
ByteLength(payload) == (Len(payload) - 2) \div 2

\* C23 (as claimed): a payload that is not empty and shorter than 3 bytes
\* decodes to the 'invalid' sentinel with a diagnostic.
C23_ShorterThanThreeBytes ==
  (codec.pc = "read" /\ Len(codec.sent) > 2 /\ ByteLength(codec.sent) < 3) =>
    /\ codec.dec.type = "invalid"
    /\ codec.dec.invalid # ""

\* C23: a payload that is not empty and has fewer than 6 characters ('0x'
\* included: less than a version byte and a type byte, 2 bytes) decodes to the
\* 'invalid' sentinel with the diagnostic "data is < 6 bytes" and no content; a
\* payload of 2 bytes or more never does.
C23_ShorterThanTwoBytes ==
  (codec.pc = "read" /\ Len(codec.sent) > 2) =>
    IF ByteLength(codec.sent) < 2
      THEN /\ codec.dec.type = "invalid"
           /\ codec.dec.invalid = "data is < 6 bytes"
           /\ codec.dec.content = <<>>
      ELSE codec.dec.invalid # "data is < 6 bytes"

\* a payload of one byte and a half has been decoded to the sentinel
C23_Witness ==
  /\ codec.pc = "read"
  /\ Len(codec.sent) = 5
  /\ codec.dec.type = "invalid"

\* C24: '0x' or an absent payload decodes to {type: 'none'}; a payload of just a
\* version byte and a type byte decodes to the type the type byte names, with
\* empty content ('' of a string, '0x' of a hex), the version byte as version
\* and the encrypted flag of the type byte.
C24_EmptyAndHeaderOnly ==
  codec.pc = "read" =>
    /\ (codec.sent \in { <<>>, << Char(48), Char(120) >> } => codec.dec = [type |-> "none"])
    /\ (Len(codec.sent) = 6 /\ HasHeader(codec.sent) /\ TypeField(codec.sent) % 128 \in {0, 1}) =>
         /\ codec.dec.type = (IF TypeField(codec.sent) % 128 = 0 THEN "string" ELSE "hex")
         /\ codec.dec.content =
              (IF TypeField(codec.sent) % 128 = 0 THEN <<>> ELSE << Char(48), Char(120) >>)
         /\ codec.dec.version = JsSlice(codec.sent, 2, 4)
         /\ codec.dec.encrypted = (TypeField(codec.sent) >= 128)

\* the payload '0x0081' has been decoded: an encrypted hex annotation, empty
C24_Witness ==
  /\ codec.pc = "read"
  /\ codec.sent = PayloadPrefix(129)
  /\ codec.dec.type = "hex"
  /\ codec.dec.encrypted

----------------------------------------------------------------------------
(* Events that do not decrypt, and log entries that do not parse *)

\* the j-th raw entry of the b-th answer of the verify() that has just settled,
\* and the event decoded from it (every answer but the last has 10 entries)
RawEntry(b, j) == settled.responses[b][j]

EventOf(b, j) == settled.value[MAX_SIGS_PER_DISCOVERY_ITERATION * (b - 1) + j]

\* the entries of the answers of the verify() that has just settled
Entries == { <<b, j>> : b \in 1..MaxBatches, j \in 1..(MAX_SIGS_PER_DISCOVERY_ITERATION + 1) }

IsEntry(e) == e[1] <= Len(settled.responses) /\ e[2] <= Len(settled.responses[e[1]])

\* the entry parses and carries an encrypted payload that this Document's key
\* does not decrypt
Undecryptable(entry) ==
  /\ entry.kind = "log"
  /\ Len(entry.data) > 6
  /\ TypeField(entry.data) >= 128
  /\ ~ decrypt(DocumentKey, JsSlice(entry.data, 6, Len(entry.data))).ok

\* a verify() has settled after an answer of the network (not by a rejected query)
VerifyAnswered == settled.op = "verify" /\ settled.error # "query error"

\* the last answer the settled verify() got holds no entry that makes parseLog throw
LastAnswerParses == ~ HasBad(settled.responses[Len(settled.responses)])

\* C25: an encrypted payload that does not decrypt (another key, a ciphertext
\* that is no hex) surfaces no failure: the verify() that read it resolves, and
\* its list holds the event, with encrypted = true and the empty content of the
\* declared type.
C25_DecryptFailureIsSilent ==
  (VerifyAnswered /\ LastAnswerParses) =>
    /\ settled.status = "resolved"
    /\ \A e \in Entries :
         (IsEntry(e) /\ Undecryptable(RawEntry(e[1], e[2]))) =>
           LET ev == EventOf(e[1], e[2])
               t  == TypeField(RawEntry(e[1], e[2]).data) % 128
           IN /\ ev.signature = RawEntry(e[1], e[2]).signature
              /\ ev.data.encrypted
              /\ ev.data.type = (IF t = 0 THEN "string" ELSE "hex")
              /\ ev.data.content = (IF t = 0 THEN <<>> ELSE << Char(48), Char(120) >>)

\* a verify() has resolved with an event whose payload is encrypted under
\* another document's key
C25_Witness ==
  /\ VerifyResolved
  /\ \E e \in Entries :
       /\ IsEntry(e)
       /\ Undecryptable(RawEntry(e[1], e[2]))
       /\ TypeField(RawEntry(e[1], e[2]).data) = 128
       /\ EventOf(e[1], e[2]).data.encrypted

\* the degenerate event
SentinelEvent == [time |-> 0, signatory |-> "", signature |-> EmptyString, data |-> [type |-> "none"]]

----------------------------------------------------------------------------
(* Document._setDocumentHash and File.verify *)

\* the contents of the files given to the File constructor
FileData == { <<Byte(1)>>, <<Byte(1), Byte(2)>> }

\* crypto.js hashFile(file), once readFile has resolved with the content
hashFile(data) == hash(data)

\* a faulty _setDocumentHash: the test is missing
_setDocumentHash_overwrites(d, h) ==
  [threw |-> FALSE,
   doc |-> [d EXCEPT !.documentHash = Buffer(h), !.encryptionKey = KeyObject(h)]]

\* Document._setDocumentHash(hash) on the instance with fields d
_setDocumentHash(d, h) ==
  IF ToBoolean(d.documentHash)
    THEN [threw |-> TRUE, doc |-> d]
    ELSE [threw |-> FALSE,
          doc |-> [d EXCEPT !.documentHash = Buffer(h), !.encryptionKey = KeyObject(h)]]

AlreadyInitialised == "document hash already initialised"

\* new Document(network, hash): the constructor sets the hash
NewDocument(h) == [_setDocumentHash(IdleFile, h).doc EXCEPT !.kind = "Document"]

\* new File(network, file): super(network, undefined) sets no hash
NewFile(data) == [IdleFile EXCEPT !.kind = "File", !.data = data]

FreeFileCall == CHOOSE c \in 1..MaxFileVerifies :
                  file.calls[c].pc = "idle" /\ \A t \in 1..(c-1) : file.calls[t].pc # "idle"

FileUnchanged ==
  UNCHANGED <<hashes, signingInProgress, iterators, signs, verifies, run, settled,
              published, oracle, it, other, codec, cipher, handle>>

\* verify() is called: File.verify starts hashFile if the hash is undefined and
\* calls super.verify() otherwise; Document.verify starts the discovery
FileVerify ==
  /\ \E c \in 1..MaxFileVerifies : file.calls[c].pc = "idle"
  /\ file' =
       IF file.kind = "File" /\ file.documentHash = Undefined
         THEN [file EXCEPT !.calls[FreeFileCall].pc = "hashing", !.reads = @ + 1,
                           !.last = [op |-> "verify", error |-> ""]]
         ELSE [file EXCEPT !.calls[FreeFileCall].pc = "base",
                           !.last = [op |-> "verify", error |-> ""]]
  /\ FileUnchanged

\* hashFile(this.file) of call c resolves: .then(this._setDocumentHash), whose
\* throw rejects the call, .then(super.verify.bind(this))
HashFileResolves(c) ==
  /\ file.calls[c].pc = "hashing"
  /\ LET r == _setDocumentHash(file, hashFile(file.data))
     IN file' =
          IF r.threw
            THEN [file EXCEPT !.calls[c] = [pc |-> "rejected", error |-> AlreadyInitialised],
                              !.hashed = @ + 1,
                              !.last = [op |-> "_setDocumentHash", error |-> AlreadyInitialised]]
            ELSE [r.doc EXCEPT !.calls[c].pc = "base", !.hashed = @ + 1,
                               !.last = [op |-> "_setDocumentHash", error |-> ""]]
  /\ FileUnchanged

\* readFile of call c fails (reader.onerror): the call rejects
HashFileRejects(c) ==
  /\ file.calls[c].pc = "hashing"
  /\ file' = [file EXCEPT !.calls[c] = [pc |-> "rejected", error |-> "read error"],
                          !.last = [op |-> "hashFile", error |-> "read error"]]
  /\ FileUnchanged

\* the Document.verify() of call c settles: with the event list, or with the
\* error of the discovery
BaseVerifySettles(c, ok) ==
  /\ file.calls[c].pc = "base"
  /\ file' = [file EXCEPT !.calls[c] = IF ok THEN [pc |-> "resolved", error |-> ""]
                                               ELSE [pc |-> "rejected", error |-> "query error"],
                          !.last = [op |-> "Document.verify", error |-> ""]]
  /\ FileUnchanged

\* a further _setDocumentHash(h) on a Document constructed with a hash
SetDocumentHashAgain(h) ==
  /\ file.kind = "Document"
  /\ LET r == _setDocumentHash(file, h)
     IN file' = [r.doc EXCEPT !.last = [op |-> "_setDocumentHash",
                                         error |-> IF r.threw THEN AlreadyInitialised ELSE ""]]
  /\ FileUnchanged

InitFile ==
  /\ InitDocument
  /\ published = {}
  /\ oracle = "any"
  /\ it = IdleIter
  /\ other = NoIterator
  /\ codec = IdleCodec
  /\ cipher = IdleCipher
  /\ handle = NoHandle
  /\ \/ \E h \in DocumentHashes : file = NewDocument(h)
     \/ \E data \in FileData : file = NewFile(data)

NextFile ==
  \/ FileVerify
  \/ \E c \in 1..MaxFileVerifies : HashFileResolves(c)
  \/ \E c \in 1..MaxFileVerifies : HashFileRejects(c)
  \/ \E c \in 1..MaxFileVerifies, ok \in BOOLEAN : BaseVerifySettles(c, ok)
  \/ \E h \in DocumentHashes : SetDocumentHashAgain(h)

SpecFile == InitFile /\ [][NextFile]_vars

\* C27: once the document hash is set (by the constructor or by File.verify),
\* every further _setDocumentHash raises "document hash already initialised",
\* and no step changes the stored hash or the encryption key.
C27_HashSetAtMostOnce ==
  [][ ToBoolean(file.documentHash) =>
        /\ file'.documentHash = file.documentHash
        /\ file'.encryptionKey = file.encryptionKey
        /\ (file'.last.op = "_setDocumentHash" /\ file' # file) =>
             file'.last.error = AlreadyInitialised ]_vars

\* a further _setDocumentHash was refused on a Document whose constructor set
\* the hash
C27_Witness ==
  /\ file.kind = "Document"
  /\ file.last = [op |-> "_setDocumentHash", error |-> AlreadyInitialised]
  /\ ToBoolean(file.documentHash)
  /\ file.encryptionKey = KeyObject(file.documentHash.s)

\* C28: on a File the file is hashed once, and no verify() call is rejected by
\* the document hash being set already: a call rejects only if the file could
\* not be read or the discovery failed.
C28_FileHashedOnce ==
  file.kind = "File" =>
    /\ file.hashed <= 1
    /\ \A c \in 1..MaxFileVerifies :
         file.calls[c].pc = "rejected" => file.calls[c].error \in {"read error", "query error"}

----------------------------------------------------------------------------
(* EncryptionKey._getKey *)

FreeKeyCall == CHOOSE c \in 1..MaxKeyCalls :
                 cipher.calls[c].pc = "idle" /\ \A t \in 1..(c-1) : cipher.calls[t].pc # "idle"

KeyUnchanged ==
  UNCHANGED <<hashes, signingInProgress, iterators, signs, verifies, run, settled,
              published, oracle, it, other, codec, file, handle>>

\* encrypt(data) or decrypt(data) is called and calls _getKey(): with this.key
\* set the call goes on with it, otherwise it calls importKey (the imports-th
\* call of it) and awaits the CryptoKey
KeyCall(op) ==
  /\ \E c \in 1..MaxKeyCalls : cipher.calls[c].pc = "idle"
  /\ cipher' =
       IF cipher.key # 0
         THEN [cipher EXCEPT !.calls[FreeKeyCall] = [pc |-> "ciphering", op |-> op, key |-> cipher.key]]
         ELSE [cipher EXCEPT !.imports = @ + 1,
                             !.calls[FreeKeyCall] =
                               [pc |-> "importing", op |-> op, key |-> cipher.imports + 1]]
  /\ KeyUnchanged

\* the importKey of call c resolves: this.key = key, and the call goes on with
\* that key
ImportResolves(c) ==
  /\ cipher.calls[c].pc = "importing"
  /\ cipher' = [cipher EXCEPT !.key = cipher.calls[c].key, !.calls[c].pc = "ciphering"]
  /\ KeyUnchanged

\* the AES-GCM operation of call c settles
CipherSettles(c) ==
  /\ cipher.calls[c].pc = "ciphering"
  /\ cipher' = [cipher EXCEPT !.calls[c].pc = "done"]
  /\ KeyUnchanged

InitKey ==
  /\ InitDocument
  /\ published = {}
  /\ oracle = "any"
  /\ it = IdleIter
  /\ other = NoIterator
  /\ codec = IdleCodec
  /\ file = IdleFile
  /\ handle = NoHandle
  /\ \E h \in DocumentHashes : cipher = [IdleCipher EXCEPT !.hash = h]

NextKey ==
  \/ \E op \in {"encrypt", "decrypt"} : KeyCall(op)
  \/ \E c \in 1..MaxKeyCalls : ImportResolves(c)
  \/ \E c \in 1..MaxKeyCalls : CipherSettles(c)

SpecKey == InitKey /\ [][NextKey]_vars

\* C29: over any sequence of encrypt/decrypt calls on one EncryptionKey the
\* key is imported at most once, and every call that has a key has the same
\* CryptoKey.
C29_KeyImportedOnce ==
  /\ cipher.imports <= 1
  /\ \A c, d \in 1..MaxKeyCalls :
       (cipher.calls[c].key # 0 /\ cipher.calls[d].key # 0) =>
         cipher.calls[c].key = cipher.calls[d].key

----------------------------------------------------------------------------
(* verify() again *)

\* the entries of the first b answers, in the order received
RECURSIVE AllEntries(_, _)
AllEntries(responses, b) ==
  IF b = 0 THEN <<>> ELSE AllEntries(responses, b - 1) \o responses[b]

\* a generator newly constructed for the Document and extended by b batches
RECURSIVE FreshGenerator(_)
FreshGenerator(b) ==
  IF b = 0 THEN NewHashIterator(DocumentHash, NetworkChainId)
  ELSE DiscoverBatch(FreshGenerator(b - 1), MAX_SIGS_PER_DISCOVERY_ITERATION).g

\* C30: whatever verify() and sign() calls came before, a verify() that
\* resolves returns the events decoded from the answers to its own queries, in
\* the order received, and installs a generator that is a newly constructed
\* one, extended by one batch per query and rewound to the highest chain index
\* among those answers: list, generator and pointer are functions of the
\* call's query results alone, so two calls that get the same answers return
\* the same list and leave the same pointer.
C30_VerifyDependsOnAnswersOnly ==
  VerifyResolved =>
    LET n == Len(settled.responses)
        ptr == Highest(UNION { EntryIndices(b) : b \in 1..n })
    IN /\ settled.value = ParseEvents(AllEntries(settled.responses, n))
       /\ hashes = Installed
       /\ iterators[Installed] = reset(FreshGenerator(n), ptr)
       /\ settled.ptr = ptr

\* a verify() has resolved with nothing found while a sign() is in flight that
\* was called when an earlier verify() had left the pointer at 9: the pointer
\* of the generator now installed is -1
C30_Witness ==
  /\ VerifyResolved
  /\ \E s \in 1..MaxSigns : signs[s].pc # "idle" /\ signs[s].ptrBefore = 9
  /\ settled.value = <<>>
  /\ iterators[Installed].hashPtr = -1

----------------------------------------------------------------------------
(* The pointer under interleaved verify() and sign() calls *)

\* C31: the pointer of the Document's generator is at least -1 and below the
\* number of elements the generator has materialized.
C31_PointerInRange ==
  hashes # 0 =>
    /\ -1 <= iterators[hashes].hashPtr
    /\ iterators[hashes].hashPtr < Len(iterators[hashes].hashes)

\* the chain indices above i that the model's generators can reach
IndicesAbove(i) == { j \in 0..(MAX_SIGS_PER_DISCOVERY_ITERATION * MaxBatches + MaxPublishes + 1) : j > i }

\* sign frame s makes its call of network.publishSignature in this step
PublishCalled(s) == signs[s].pc # "publish" /\ signs'[s].pc = "publish"

\* C32: every call of the publish collaborator passes a chain element whose
\* index is above the highest index found by the last verify() that resolved.
C32_PublishesAboveVerified ==
  [][ \A s \in 1..MaxSigns :
        PublishCalled(s) =>
          \E j \in IndicesAbove(run.p) : signs'[s].signature = ChainHex(j) ]_vars

\* the sign() of frame s, in flight when the last verify() resolved, fails in
\* this step
StaleSignFails(s) ==
  /\ signs[s].pc # "idle"
  /\ ~ signs[s].fresh
  /\ signs'[s].pc = "idle"
  /\ settled'.op = "sign"
  /\ settled'.status = "rejected"

\* C33: when a sign() fails that was in flight while a verify() resolved, the
\* pointer of the generator that verify() installed stays the highest index
\* that verify() found.
C33_VerifyUndisturbedBySign ==
  [][ \A s \in 1..MaxSigns :
        StaleSignFails(s) =>
          /\ hashes' = hashes
          /\ iterators'[hashes].hashPtr = run.p ]_vars

----------------------------------------------------------------------------
(* The busy flag *)

\* a sign() is rejected in this step by one of its two preconditions
SignRefused ==
  /\ settled'.op = "sign"
  /\ settled'.error \in {"Must verify before signing", "Signing already in progress"}

\* an accepted sign() settles in this step
SignSettles == \E s \in 1..MaxSigns : signs[s].pc # "idle" /\ signs'[s].pc = "idle"

\* C34: the busy flag is true exactly while an accepted sign() has not settled,
\* and there is at most one; it is false after that sign() settles, whether it
\* resolved, its publish call rejected or the annotation did not encode; a
\* sign() refused by a precondition changes neither the flag nor any frame;
\* and with no sign() in flight no sign() is rejected with "Signing already in
\* progress".
C34_BusyFlag ==
  /\ [](signingInProgress <=> InFlightSigns # {})
  /\ [](Cardinality(InFlightSigns) <= 1)
  /\ [][ SignSettles => ~ signingInProgress' /\ settled'.op = "sign" ]_vars
  /\ [][ SignRefused => signingInProgress' = signingInProgress /\ signs' = signs ]_vars
  /\ [][ (InFlightSigns = {} /\ settled'.op = "sign")
           => settled'.error # "Signing already in progress" ]_vars

\* a sign() has just been rejected by an annotation that does not encode, before
\* any publish call, and the flag is false again
C34_Witness ==
  /\ settled.op = "sign"
  /\ settled.status = "rejected"
  /\ settled.error \notin {"Must verify before signing", "Signing already in progress",
                           "Failed to publish signature", ""}
  /\ settled.calls = 0
  /\ ~ signingInProgress
  /\ InFlightSigns = {}

----------------------------------------------------------------------------
(* One next() at a time on a generator *)

\* the calls of next() pending on the generator in slot i: those of the sign()
\* calls suspended in it, and the discovery that owns it
PendingOn(i) ==
  Cardinality({ s \in 1..MaxSigns : signs[s].pc = "next" /\ signs[s].gen = i })
    + Cardinality({ v \in VerifyFrames : verifies[v].pc # "idle" /\ verifies[v].gen = i })

\* C35: every generator has at most one next() pending (the generator of a
\* discovery is used by no sign()), and the elements every generator of the
\* Document has materialized are the chain H[0], H[1], ... without a duplicate.
C35_OneNextPerGenerator ==
  \A i \in 1..MaxIterators :
    /\ PendingOn(i) <= 1
    /\ iterators[i].documentHash = DocumentHash =>
         \A j \in 1..Len(iterators[i].hashes) :
           iterators[i].hashes[j] = Chain(DocumentHc, j - 1)

\* the next() of a sign() is suspended on a generator that a verify() has
\* replaced, while a further discovery is running on a generator of its own
C35_Witness ==
  \E s \in 1..MaxSigns :
    /\ signs[s].pc = "next"
    /\ signs[s].gen # Installed
    /\ hashes = Installed
    /\ \E v \in VerifyFrames : verifies[v].pc = "query"

----------------------------------------------------------------------------
(* The batches of one discovery *)

\* the chain indices, among the first 10*b, of the entries of the b-th of the
\* answers `responses`
IndicesIn(responses, b) ==
  { i \in 0..(MAX_SIGS_PER_DISCOVERY_ITERATION * b - 1) :
      \E j \in 1..Len(responses[b]) :
        /\ responses[b][j].kind = "log"
        /\ responses[b][j].signature = ChainHex(i) }

\* C36: a discovery has one query outstanding, its (k+1)-th when k answers
\* were received, and by then the k answers are decoded and appended to the
\* event list and folded into the highest index; a step receives at most one
\* answer, and a query is issued only by the call of verify() or by the step
\* that has processed the answer to the query before.
C36_BatchesSequential ==
  /\ [](\A v \in VerifyFrames :
          verifies[v].pc = "query" =>
            LET k == Len(verifies[v].responses)
            IN /\ Len(iterators[verifies[v].gen].hashes) = MAX_SIGS_PER_DISCOVERY_ITERATION * (k + 1)
               /\ Len(verifies[v].ids) = MAX_SIGS_PER_DISCOVERY_ITERATION
               /\ verifies[v].signatureEvents = ParseEvents(AllEntries(verifies[v].responses, k))
               /\ verifies[v].lastSignatureIndex =
                    Highest(UNION { IndicesIn(verifies[v].responses, b) : b \in 1..k }))
  /\ [][ \A v \in VerifyFrames :
           (verifies[v].pc = "query" /\ verifies'[v].pc = "query") =>
             \/ verifies'[v] = verifies[v]
             \/ /\ Len(verifies'[v].responses) = Len(verifies[v].responses) + 1
                /\ verifies'[v].ids # verifies[v].ids ]_vars

\* the second query of a discovery is outstanding, and the first answer held
\* an entry of the chain and one that did not parse
C36_Witness ==
  \E v \in VerifyFrames :
    /\ verifies[v].pc = "query"
    /\ Len(verifies[v].responses) = 1
    /\ verifies[v].lastSignatureIndex >= 0
    /\ \E j \in 1..Len(verifies[v].signatureEvents) :
         verifies[v].signatureEvents[j] = SentinelEvent

----------------------------------------------------------------------------
(* A chain published without gaps *)

\* the numbers m such that exactly the first m chain elements are published
PrefixLengths == { m \in 0..LastIndex : published = 0..(m - 1) }

\* C37: when exactly the first m chain elements are published and the registry
\* returns the published ones among the ids asked, a verify() that resolves
\* has made floor(m/10) + 1 queries and leaves the pointer at m - 1; when m is a
\* positive multiple of 10 its last query returned no entry.
C37_QueriesForPrefix ==
  (VerifyResolved /\ oracle = "registry") =>
    \A m \in PrefixLengths :
      /\ Len(settled.responses) = (m \div MAX_SIGS_PER_DISCOVERY_ITERATION) + 1
      /\ iterators[hashes].hashPtr = m - 1
      /\ settled.ptr = m - 1
      /\ Len(settled.value) = m
      /\ (m > 0 /\ m % MAX_SIGS_PER_DISCOVERY_ITERATION = 0) =>
           settled.responses[Len(settled.responses)] = <<>>

\* a verify() has resolved on a chain of exactly 10 published elements, after a
\* second query that returned nothing
C37_Witness ==
  /\ VerifyResolved
  /\ oracle = "registry"
  /\ published = 0..(MAX_SIGS_PER_DISCOVERY_ITERATION - 1)
  /\ Len(settled.responses) = 2
  /\ settled.responses[2] = <<>>
  /\ iterators[hashes].hashPtr = MAX_SIGS_PER_DISCOVERY_ITERATION - 1

----------------------------------------------------------------------------
(* Termination of the discovery *)

\* the query of verify frame v settles, with the registry's answer or with a
\* rejection; the model holds MaxBatches answers per discovery
QuerySettles(v) ==
  /\ Len(verifies[v].responses) < MaxBatches
  /\ \/ \E events \in Answers(v) : query_resolve(v, events)
     \/ query_reject(v)

NextTermination ==
  \/ verify
  \/ \E v \in VerifyFrames : QuerySettles(v)

\* a query is outstanding: QuerySettles is enabled
QueryPending ==
  \E v \in VerifyFrames :
    verifies[v].pc = "query" /\ Len(verifies[v].responses) < MaxBatches

\* every query settles: weak fairness of QuerySettles, that is
\* WF_vars(\E v \in VerifyFrames : QuerySettles(v)), with its enabling condition
\* written as the state predicate QueryPending
QueriesSettle ==
  \/ []<>(~ QueryPending)
  \/ []<><<\E v \in VerifyFrames : QuerySettles(v)>>_vars

\* a Document on a registry with finitely many published elements, whose
\* queries all settle
SpecTermination == InitRegistry /\ [][NextTermination]_vars /\ QueriesSettle

\* C38: with finitely many chain elements published, a registry that returns
\* the published elements of the batch asked, and queries that all settle,
\* every verify() called resolves or rejects.
C38_DiscoveryTerminates ==
  \A v \in VerifyFrames :
    (verifies[v].pc = "query") ~> (verifies[v].pc = "idle" /\ (VerifyResolved \/ VerifyRejected))

\* a verify() has resolved after the last batch the model holds, on a chain
\* published up to the last element but one
C38_Witness ==
  /\ VerifyResolved
  /\ oracle = "registry"
  /\ Len(settled.responses) = MaxBatches
  /\ published = 0..(LastIndex - 1)

----------------------------------------------------------------------------
(* The event list *)

\* the number of entries of the first b answers of the verify() that settled
RECURSIVE EntriesBefore(_)
EntriesBefore(b) == IF b = 0 THEN 0 ELSE EntriesBefore(b - 1) + Len(settled.responses[b])

\* C39: the event list a verify() resolves with has one event per entry
\* returned, the event decoded from the j-th entry of the b-th answer standing
\* after the events of all entries returned before it: no entry is dropped,
\* merged with an equal one or moved, whether its signature was asked or not
\* and whether it parsed or not; and every entry counts for the test that ends
\* the discovery (every answer but the last had 10 entries, the last had not).
C39_EventListIsConcatenation ==
  VerifyResolved =>
    LET n == Len(settled.responses)
    IN /\ Len(settled.value) = EntriesBefore(n)
       /\ \A b \in 1..n : \A j \in 1..Len(settled.responses[b]) :
            settled.value[EntriesBefore(b - 1) + j] = _decodeSignatureEvent(settled.responses[b][j])
       /\ \A b \in 1..(n - 1) : Len(settled.responses[b]) = MAX_SIGS_PER_DISCOVERY_ITERATION
       /\ Len(settled.responses[n]) # MAX_SIGS_PER_DISCOVERY_ITERATION

\* a verify() has resolved with a list that holds the same event twice, a
\* sentinel event, and after a first batch of 10 entries an event out of order
C39_Witness ==
  /\ VerifyResolved
  /\ Len(settled.responses) = 2
  /\ \E j, k \in 1..Len(settled.value) :
       /\ j < k
       /\ settled.value[j] = settled.value[k]
       /\ settled.value[j].signature # EmptyString
  /\ \E j \in 1..Len(settled.value) : settled.value[j] = SentinelEvent
  /\ \E j \in 1..(Len(settled.value) - 1) :
       /\ settled.value[j].signature = ChainHex(2)
       /\ settled.value[j + 1].signature = ChainHex(1)

----------------------------------------------------------------------------
(* EthersProvider.publishSignature: the confirmation promise *)

\* a || b on numbers
JsOr(a, b) == IF a # 0 THEN a ELSE b

\* params.blockTime || 12000, and the delay between two receipt lookups
DefaultBlockTime == 12000

PollInterval == 1000

\* params.blockTime and params.networkLatency as given to the provider (0: not given)
BlockTimes == { 0, 500, 2000 }

NetworkLatencies == { 0, 500, 2000 }

\* what a rejected receipt lookup rejects with
LookupError == [kind |-> "error", status |-> 0]

\* resolve(value) or reject(value) is called on the promise: the first call settles it
Settle(h, state, value) ==
  IF h.state = "pending"
    THEN [h EXCEPT !.pc = "settled", !.state = state, !.value = value, !.calls = @ + 1]
    ELSE [h EXCEPT !.pc = "settled", !.calls = @ + 1]

\* _awaitTransactionConfirmation(txHash, provider, blockTime, networkLatency):
\* a pending promise and the timer of the first lookup
_awaitTransactionConfirmation(blockTime, networkLatency) ==
  [pc |-> "timer", blockTime |-> blockTime, networkLatency |-> networkLatency,
   timer |-> JsOr(blockTime, PollInterval), polls |-> 0,
   state |-> "pending", value |-> NullReceipt, calls |-> 0]

\* a faulty then handler: the status of the receipt is not looked at
OnReceipt_ignoresStatus(h, receipt) ==
  IF receipt.kind = "null" THEN [h EXCEPT !.pc = "timer", !.timer = PollInterval]
  ELSE Settle(h, "resolved", receipt)

\* the then handler of getTransactionReceipt in checkTxReceipt
OnReceipt(h, receipt) ==
  IF receipt.kind = "null" THEN [h EXCEPT !.pc = "timer", !.timer = PollInterval]
  ELSE IF receipt.status # 0
    THEN IF h.networkLatency > 0
           THEN [h EXCEPT !.pc = "latency", !.timer = h.networkLatency, !.value = receipt]
           ELSE Settle(h, "resolved", receipt)
    ELSE Settle(h, "rejected", receipt)

ConfirmationUnchanged ==
  UNCHANGED <<hashes, signingInProgress, iterators, signs, verifies, run, settled,
              published, oracle, it, other, codec, file, cipher>>

\* publishSignature: the transaction is sent and the promise is made
publishSignature(blockTime, networkLatency) ==
  /\ handle.pc = "none"
  /\ handle' = _awaitTransactionConfirmation(JsOr(blockTime, DefaultBlockTime), networkLatency)
  /\ ConfirmationUnchanged

\* the timer before a lookup fires: checkTxReceipt calls getTransactionReceipt
TimerFires ==
  /\ handle.pc = "timer"
  /\ handle' = [handle EXCEPT !.pc = "lookup", !.timer = 0, !.polls = @ + 1]
  /\ ConfirmationUnchanged

\* getTransactionReceipt resolves, with null while the transaction is not
\* mined (the model holds MaxPolls lookups)
LookupResolves(receipt) ==
  /\ handle.pc = "lookup"
  /\ receipt.kind = "null" => handle.polls < MaxPolls
  /\ handle' = OnReceipt(handle, receipt)
  /\ ConfirmationUnchanged

\* getTransactionReceipt rejects: .catch(reject)
LookupRejects ==
  /\ handle.pc = "lookup"
  /\ handle' = Settle(handle, "rejected", LookupError)
  /\ ConfirmationUnchanged

\* the timer of the network latency fires: resolve(receipt)
LatencyFires ==
  /\ handle.pc = "latency"
  /\ handle' = Settle([handle EXCEPT !.timer = 0], "resolved", handle.value)
  /\ ConfirmationUnchanged

InitConfirmation ==
  /\ InitDocument
  /\ published = {}
  /\ oracle = "any"
  /\ it = IdleIter
  /\ other = NoIterator
  /\ codec = IdleCodec
  /\ file = IdleFile
  /\ cipher = IdleCipher
  /\ handle = NoHandle

NextConfirmation ==
  \/ \E blockTime \in BlockTimes, networkLatency \in NetworkLatencies :
       publishSignature(blockTime, networkLatency)
  \/ TimerFires
  \/ \E receipt \in { NullReceipt, Receipt(1), Receipt(0) } : LookupResolves(receipt)
  \/ LookupRejects
  \/ LatencyFires

SpecConfirmation == InitConfirmation /\ [][NextConfirmation]_vars

\* C40: the confirmation promise is settled by one call of resolve or reject
\* and does not change afterwards; it resolves only with a receipt whose
\* status is truthy, and with a network latency configured only when the timer
\* of that latency fires; it rejects only with a receipt whose status is falsy
\* or with the error of a failed lookup; and a lookup that returns null
\* settles nothing and starts the timer of the next lookup.
C40_ConfirmationHandle ==
  /\ [](handle.calls <= 1)
  /\ [](handle.state = "resolved" =>
          handle.value.kind = "receipt" /\ handle.value.status # 0)
  /\ [](handle.state = "rejected" =>
          \/ handle.value = LookupError
          \/ handle.value.kind = "receipt" /\ handle.value.status = 0)
  /\ [][ handle.state \in {"resolved", "rejected"} => handle' = handle ]_vars
  /\ [][ handle.pc = "lookup" =>
           \/ /\ handle'.pc = "timer"
              /\ handle'.timer = PollInterval
              /\ handle'.state = "pending"
           \/ /\ handle'.pc = "latency"
              /\ handle.networkLatency > 0
              /\ handle'.timer = handle.networkLatency
              /\ handle'.state = "pending"
           \/ handle'.state = "resolved" /\ handle.networkLatency = 0
           \/ handle'.state = "rejected" ]_vars
  /\ [][ (handle'.state = "resolved" /\ handle.state = "pending") =>
           \/ handle.pc = "lookup" /\ handle.networkLatency = 0
           \/ handle.pc = "latency" /\ handle'.value = handle.value ]_vars

\* the promise has resolved after two lookups that returned null and the
\* timer of the network latency
C40_Witness ==
  /\ handle.state = "resolved"
  /\ handle.polls = 3
  /\ handle.networkLatency > 0
  /\ handle.value = Receipt(1)

============================================================================
